---- MODULE Spec2Model ----
(***************************************************************************)
(* Model of spsc::Ringbuffer<T, BufferSize, FakeTSO, IndexT>               *)
(* (include/spsc/ringbuffer.hpp), instantiated as in the boundary tests:   *)
(* Ringbuffer<int, 4, false, uint8_t>.                                     *)
(*                                                                         *)
(* One producer thread and one consumer thread.  Every operation is cut    *)
(* into its accesses to shared memory: a step is one atomic load, one      *)
(* atomic store, or one access to the slot array (one assignment or one    *)
(* memcpy); the local computation that follows an access belongs to the    *)
(* same step.  Memory is sequentially consistent; the acquire/release      *)
(* orders of the source are not modelled.                                  *)
(*                                                                         *)
(* Arithmetic follows C++: two IndexT operands narrower than int are       *)
(* promoted to int before "-" and "+", so their difference is a signed     *)
(* int; an int compared with or subtracted from a std::size_t is converted *)
(* to std::size_t; a value stored into an IndexT is reduced modulo 2^8.    *)
(***************************************************************************)
EXTENDS Integers, Sequences, FiniteSets, TLC

(* ------------------------------ constants ------------------------------ *)

\* BufferSize template argument of Ringbuffer<int, 4, false, uint8_t>.
BufferSize == 4

\* Number of values of IndexT = uint8_t.
IndexMod == 256

\* Modulus of std::size_t arithmetic.  The platform's is 2^64 (or 2^32); the
\* model checker's integers are 32-bit, so 2^30 stands for it.  It is a
\* multiple of IndexMod and larger than every count of the model, which is
\* all the conversions below depend on.
SizeTMod == 1073741824

\* Content of a slot that was never written: data_buff_[BufferSize]{}.
Stale == 0

\* Value the caller's output variable holds before Pop (int val = -1) and
\* every element of the caller's destination array before PopBatch.
OutInit == -1

\* Ghost marker recorded for an element that was discarded unread: a value no
\* slot and no output variable ever holds.
Discarded == OutInit - 1

(* -------------------------------- bounds ------------------------------- *)

\* Total number of elements the producer offers in the concurrent and
\* sequential specifications.
MaxPush == 6

\* Largest count passed to PushBatch / PopBatch.
MaxBatch == 2

\* Largest count passed to Discard.
MaxDiscard == 2

\* Total number of elements the producer offers in the specification that
\* includes ProducerClear and ConsumerClear.
MaxPushClear == 3

\* Total number of elements pushed in the round-based wraparound run.
MaxRoundPush == 262

\* Largest count passed to PushBatch / PopBatch when the operations are
\* called one at a time: more than BufferSize.
MaxSeqBatch == 5

\* Largest small index passed to At and operator[]: one past the capacity.
\* At is also called with IndexMod, the least std::size_t index that does not
\* fit IndexT.
MaxIndex == 5

\* Total number of elements the producer offers in the specification of
\* every operation of the interface.
MaxPushAll == 2

\* Number of values pushed before the producer calls ProducerClear in the
\* run that races the clear against the consumer.
ClearAt == 2

\* Initial values of head = tail.  0 is the constructed buffer; the state
\* head = tail = k with every slot 0 is the one reached from it by k rounds
\* of Push(0); Pop(v).  From 252 the buffer is full when head has wrapped to
\* 0; from 255 the first two-element batch straddles the end of the array.
StartIndex == {0, 252, 255}

(* ------------------------------- variables ----------------------------- *)

VARIABLES
  head,       \* head_.value
  tail,       \* tail_.value
  data_buff,  \* data_buff_
  prod,       \* producer thread: position, operation, locals, result
  cons,       \* consumer thread: position, operation, locals, result
  pushed,     \* ghost: values accepted by the buffer, in order
  consumed,   \* ghost: values handed to the consumer, in order, with
              \* Discarded for each element dropped unread
  rnd         \* driver of the round-based run: [m, base]

vars == <<head, tail, data_buff, prod, cons, pushed, consumed, rnd>>

shared == <<head, tail, data_buff>>

(* ------------------------------ arithmetic ----------------------------- *)

Min(a, b) == IF a <= b THEN a ELSE b

\* static_cast<IndexT>(x) and every implicit conversion to IndexT.
ToIndexT(x) == x % IndexMod

\* Implicit conversion of an int to std::size_t.
ToSizeT(x) == x % SizeTMod

\* x & kMask, kMask = BufferSize - 1u with BufferSize a power of two.
Mask(x) == x % BufferSize

\* (current_head - current_tail) == BufferSize in PushImpl and
\* PushFromCallback: the difference of two promoted uint8_t is an int, which
\* the comparison with the std::size_t BufferSize converts to std::size_t.
PushDiff(h, t) == ToSizeT(h - t)

\* Mutant: a full test on the slot offsets: head and tail address the same
\* slot, which is the case for the full buffer and for the empty one.
PushIsFull_SameSlot(h, t) == Mask(h) = Mask(t)

\* Mutant: a full test that keeps one slot free, and so refuses a push into
\* a buffer that has room for one element.
PushIsFull_OneSlotFree(h, t) == PushDiff(h, t) >= BufferSize - 1

PushIsFull(h, t) == PushDiff(h, t) = BufferSize

\* current_tail == current_head in Pop.
PopIsEmpty_Ordered(t, h) == t >= h

PopIsEmpty(t, h) == t = h

\* Mutant: one slot is kept free.
Space_OneSlotFree(h, t) == ToIndexT(ToSizeT(BufferSize - 1 - ToSizeT(h - t)))

\* const IndexT space = BufferSize - (current_head - current_tail);
Space(h, t) == ToIndexT(ToSizeT(BufferSize - ToSizeT(h - t)))

\* const IndexT available = current_head - current_tail;
Avail(h, t) == ToIndexT(h - t)

\* (current_head - current_tail) <= static_cast<IndexT>(index) in At: the
\* difference of two promoted uint8_t is a signed int, and so is the promoted
\* right-hand side; the comparison is a signed one.
AtIsOutOfRange(h, t, index) == (h - t) <= ToIndexT(index)

\* memcpy(&data_buff_[offset], src, n * sizeof(T)), src(i) the i-th source
\* element.  What a copy writes past the end of data_buff_ is not kept.
Memcpy(buf, offset, n, src(_)) ==
  [i \in DOMAIN buf |->
     IF offset <= i /\ i < offset + n THEN src(i - offset) ELSE buf[i]]

(* --------------------------- thread records ---------------------------- *)

ProdIdle ==
  [pc |-> "idle", op |-> "none", current_head |-> 0, current_tail |-> 0,
   count |-> 0, written |-> 0, callback |-> FALSE, ret |-> FALSE,
   touched |-> FALSE, calls |-> 0, result |-> 0, iter |-> 0]

ConsIdle ==
  [pc |-> "idle", op |-> "none", current_tail |-> 0, current_head |-> 0,
   data |-> OutInit, buf |-> <<>>, count |-> 0, read |-> 0,
   callback |-> FALSE, ret |-> FALSE, to_discard |-> 0,
   touched |-> FALSE, calls |-> 0, index |-> 0, slot |-> 0, result |-> 0,
   iter |-> 0]

\* The value the producer offers next: the tests push 0, 1, 2, ...; the
\* model pushes 1, 2, 3, ... so that no pushed value equals Stale.
NextValue(i) == Len(pushed) + 1 + i

(* ------------------------------- Init ---------------------------------- *)

\* Ringbuffer(): head_ = tail_ = 0, data_buff_ value-initialised.
Init ==
  /\ head = 0
  /\ tail = 0
  /\ data_buff = [i \in 0 .. BufferSize - 1 |-> Stale]
  /\ prod = ProdIdle
  /\ cons = ConsIdle
  /\ pushed = <<>>
  /\ consumed = <<>>
  /\ rnd = [m |-> 0, base |-> 0]

\* An empty buffer whose counters stand at one of StartIndex.
InitStart ==
  /\ head \in StartIndex
  /\ tail = head
  /\ data_buff = [i \in 0 .. BufferSize - 1 |-> Stale]
  /\ prod = ProdIdle
  /\ cons = ConsIdle
  /\ pushed = <<>>
  /\ consumed = <<>>
  /\ rnd = [m |-> 0, base |-> 0]

(* ------------------------- producer: Push ------------------------------ *)

\* PushImpl: const IndexT current_head = head_.value.load(relaxed);
PushLoadHead ==
  /\ prod.pc = "idle"
  /\ prod' = [ProdIdle EXCEPT !.pc = "push_load_tail", !.op = "Push",
                              !.current_head = head]
  /\ UNCHANGED <<head, tail, data_buff, cons, pushed, consumed, rnd>>

\* const IndexT current_tail = tail_.value.load(acquire);
\* if ((current_head - current_tail) == BufferSize) return false;
PushLoadTail ==
  /\ prod.pc = "push_load_tail"
  /\ prod.op = "Push"
  /\ IF PushIsFull(prod.current_head, tail)
       THEN prod' = [prod EXCEPT !.pc = "idle", !.ret = FALSE,
                                 !.current_head = 0, !.current_tail = 0]
       ELSE prod' = [prod EXCEPT !.pc = "push_write", !.current_tail = tail]
  /\ UNCHANGED <<head, tail, data_buff, cons, pushed, consumed, rnd>>

\* data_buff_[current_head & kMask] = std::forward<U>(data);
PushWrite ==
  /\ prod.pc = "push_write"
  /\ prod.op = "Push"
  /\ data_buff' = [data_buff EXCEPT ![Mask(prod.current_head)] = NextValue(0)]
  /\ prod' = [prod EXCEPT !.pc = "push_store",
                          !.touched = @ \/ data_buff' # data_buff]
  /\ UNCHANGED <<head, tail, cons, pushed, consumed, rnd>>

\* head_.value.store(current_head + 1, release); return true;
PushStoreHead ==
  /\ prod.pc = "push_store"
  /\ prod.op = "Push"
  /\ head' = ToIndexT(prod.current_head + 1)
  /\ pushed' = Append(pushed, NextValue(0))
  /\ prod' = [prod EXCEPT !.pc = "idle", !.ret = TRUE,
                          !.touched = @ \/ head' # head,
                          !.current_head = 0, !.current_tail = 0]
  /\ UNCHANGED <<tail, data_buff, cons, consumed, rnd>>

(* --------------------- producer: PushFromCallback ---------------------- *)

\* PushFromCallback: const IndexT current_head = head_.value.load(relaxed);
PushFromCallbackLoadHead ==
  /\ prod.pc = "idle"
  /\ prod' = [ProdIdle EXCEPT !.pc = "push_load_tail",
                              !.op = "PushFromCallback",
                              !.current_head = head]
  /\ UNCHANGED <<head, tail, data_buff, cons, pushed, consumed, rnd>>

\* const IndexT current_tail = tail_.value.load(acquire);
\* if ((current_head - current_tail) == BufferSize) return false;
PushFromCallbackLoadTail ==
  /\ prod.pc = "push_load_tail"
  /\ prod.op = "PushFromCallback"
  /\ IF PushIsFull(prod.current_head, tail)
       THEN prod' = [prod EXCEPT !.pc = "idle", !.ret = FALSE,
                                 !.current_head = 0, !.current_tail = 0]
       ELSE prod' = [prod EXCEPT !.pc = "push_write", !.current_tail = tail]
  /\ UNCHANGED <<head, tail, data_buff, cons, pushed, consumed, rnd>>

\* data_buff_[current_head & kMask] = callback();
\* The callback is the tests' generator: it returns the next value and counts
\* its invocations.
PushFromCallbackWrite ==
  /\ prod.pc = "push_write"
  /\ prod.op = "PushFromCallback"
  /\ data_buff' = [data_buff EXCEPT ![Mask(prod.current_head)] = NextValue(0)]
  /\ prod' = [prod EXCEPT !.pc = "push_store", !.calls = @ + 1,
                          !.touched = @ \/ data_buff' # data_buff]
  /\ UNCHANGED <<head, tail, cons, pushed, consumed, rnd>>

\* head_.value.store(current_head + 1, release); return true;
PushFromCallbackStoreHead ==
  /\ prod.pc = "push_store"
  /\ prod.op = "PushFromCallback"
  /\ head' = ToIndexT(prod.current_head + 1)
  /\ pushed' = Append(pushed, NextValue(0))
  /\ prod' = [prod EXCEPT !.pc = "idle", !.ret = TRUE,
                          !.touched = @ \/ head' # head,
                          !.current_head = 0, !.current_tail = 0]
  /\ UNCHANGED <<tail, data_buff, cons, consumed, rnd>>

(* ------------------------ producer: PushBatch -------------------------- *)

\* Locals of one iteration of PushBatchCore's loop, from the producer's
\* current_head, current_tail, count and written.
PbSpace == Space(prod.current_head, prod.current_tail)
\* Mutant: the chunk is not limited by the free space.
PbToWrite_IgnoreSpace == prod.count - prod.written

PbToWrite == Min(prod.count - prod.written, PbSpace)
PbHeadOffset == Mask(prod.current_head)
PbFirstPart_NoSplit == PbToWrite

PbFirstPart == Min(PbToWrite, BufferSize - PbHeadOffset)

\* while (written < count) ... return written;
PbLoop(p) ==
  IF p.written < p.count
    THEN [p EXCEPT !.pc = "pb_load_tail"]
    ELSE [p EXCEPT !.pc = "idle", !.current_head = 0, !.current_tail = 0]

\* PushBatchCore: std::size_t written = 0;
\* IndexT current_head = head_.value.load(relaxed);
\* cb tells the overload: PushBatch(buf, count, callback) or PushBatch(buf, count).
PushBatchLoadHead(count, cb) ==
  /\ prod.pc = "idle"
  /\ prod' = PbLoop([ProdIdle EXCEPT !.op = "PushBatch", !.count = count,
                                     !.callback = cb, !.current_head = head])
  /\ UNCHANGED <<head, tail, data_buff, cons, pushed, consumed, rnd>>

\* Mutant: a loop that notifies the caller also when it leaves on a full
\* buffer.
PushBatchLoadTail_NotifiesOnExit ==
  /\ prod.pc = "pb_load_tail"
  /\ IF Space(prod.current_head, tail) = 0
       THEN prod' = [prod EXCEPT !.pc = "idle", !.iter = @ + 1,
                                 !.calls = IF prod.callback THEN @ + 1 ELSE @,
                                 !.current_head = 0, !.current_tail = 0]
       ELSE prod' = [prod EXCEPT !.pc = "pb_copy_first", !.current_tail = tail,
                                 !.iter = @ + 1]
  /\ UNCHANGED <<head, tail, data_buff, cons, pushed, consumed, rnd>>

\* Mutant: a loop without "if (space == 0) break;", which spins on a full
\* buffer until the consumer makes room.
PushBatchLoadTail_NoBreak ==
  /\ prod.pc = "pb_load_tail"
  /\ prod' = [prod EXCEPT !.pc = "pb_copy_first", !.current_tail = tail,
                          !.iter = @ + 1]
  /\ UNCHANGED <<head, tail, data_buff, cons, pushed, consumed, rnd>>

\* Mutant: a loop that loads tail in its first iteration only and computes
\* the space of the later iterations from that value.
PushBatchLoadTail_LoadsTailOnce ==
  /\ prod.pc = "pb_load_tail"
  /\ LET t == IF prod.iter = 0 THEN tail ELSE prod.current_tail
     IN  IF Space(prod.current_head, t) = 0
           THEN prod' = [prod EXCEPT !.pc = "idle", !.iter = @ + 1,
                                     !.current_head = 0, !.current_tail = 0]
           ELSE prod' = [prod EXCEPT !.pc = "pb_copy_first",
                                     !.current_tail = t, !.iter = @ + 1]
  /\ UNCHANGED <<head, tail, data_buff, cons, pushed, consumed, rnd>>

\* const IndexT current_tail = tail_.value.load(acquire);
\* const IndexT space = ...; if (space == 0) break;
\* iter counts the iterations of the loop the call has begun.
PushBatchLoadTail ==
  /\ prod.pc = "pb_load_tail"
  /\ IF Space(prod.current_head, tail) = 0
       THEN prod' = [prod EXCEPT !.pc = "idle", !.iter = @ + 1,
                                 !.current_head = 0, !.current_tail = 0]
       ELSE prod' = [prod EXCEPT !.pc = "pb_copy_first", !.current_tail = tail,
                                 !.iter = @ + 1]
  /\ UNCHANGED <<head, tail, data_buff, cons, pushed, consumed, rnd>>

\* std::memcpy(&data_buff_[head_offset], buf + written, first_part * sizeof(T));
PushBatchCopyFirst ==
  /\ prod.pc = "pb_copy_first"
  /\ data_buff' = Memcpy(data_buff, PbHeadOffset, PbFirstPart, NextValue)
  /\ prod' = [prod EXCEPT
                !.pc = IF PbToWrite > PbFirstPart THEN "pb_copy_second"
                                                  ELSE "pb_store",
                !.touched = @ \/ data_buff' # data_buff]
  /\ UNCHANGED <<head, tail, cons, pushed, consumed, rnd>>

\* Mutant: the part of the chunk that lies past the end of the array is not
\* copied.
PushBatchCopySecond_Skip ==
  /\ prod.pc = "pb_copy_second"
  /\ prod' = [prod EXCEPT !.pc = "pb_store"]
  /\ UNCHANGED <<head, tail, data_buff, cons, pushed, consumed, rnd>>

\* if (to_write > first_part)
\*   std::memcpy(&data_buff_[0], buf + written + first_part, ...);
PushBatchCopySecond ==
  /\ prod.pc = "pb_copy_second"
  /\ data_buff' = Memcpy(data_buff, 0, PbToWrite - PbFirstPart,
                         LAMBDA i : NextValue(PbFirstPart + i))
  /\ prod' = [prod EXCEPT !.pc = "pb_store",
                          !.touched = @ \/ data_buff' # data_buff]
  /\ UNCHANGED <<head, tail, cons, pushed, consumed, rnd>>

\* written += to_write; current_head += static_cast<IndexT>(to_write);
\* head_.value.store(current_head, release);
\* then (*callback)() in the callback overload, else the loop test.
PushBatchStoreHead ==
  /\ prod.pc = "pb_store"
  /\ head' = ToIndexT(prod.current_head + ToIndexT(PbToWrite))
  /\ pushed' = pushed \o [i \in 1 .. PbToWrite |-> NextValue(i - 1)]
  /\ LET p == [prod EXCEPT !.written = @ + PbToWrite,
                           !.current_head = head',
                           !.touched = @ \/ head' # head]
     IN  prod' = IF prod.callback THEN [p EXCEPT !.pc = "pb_callback"]
                                  ELSE PbLoop(p)
  /\ UNCHANGED <<tail, data_buff, cons, consumed, rnd>>

\* (*callback)();  the tests' callback counts its invocations.
PushBatchCallback ==
  /\ prod.pc = "pb_callback"
  /\ prod' = PbLoop([prod EXCEPT !.calls = @ + 1])
  /\ UNCHANGED <<head, tail, data_buff, cons, pushed, consumed, rnd>>

(* ---------------------- producer: ProducerClear ------------------------ *)

\* ProducerClear: tail_.value.load(relaxed), the argument of the store.
ProducerClearLoadTail ==
  /\ prod.pc = "idle"
  /\ prod' = [ProdIdle EXCEPT !.pc = "pclear_store", !.op = "ProducerClear",
                              !.current_tail = tail]
  /\ UNCHANGED <<head, tail, data_buff, cons, pushed, consumed, rnd>>

\* Mutant: the original library's ProducerClear, which stored into tail_, the
\* counter the consumer owns.
ProducerClearStoreHead_StoresTail ==
  /\ prod.pc = "pclear_store"
  /\ tail' = head
  /\ consumed' = consumed \o [i \in 1 .. Avail(head, tail) |-> Discarded]
  /\ prod' = [prod EXCEPT !.pc = "idle", !.touched = @ \/ tail' # tail,
                          !.current_tail = 0]
  /\ UNCHANGED <<head, data_buff, cons, pushed, rnd>>

\* head_.value.store(<loaded tail>, relaxed);
\* Ghost: the elements between the loaded tail and the old head are dropped.
ProducerClearStoreHead ==
  /\ prod.pc = "pclear_store"
  /\ head' = prod.current_tail
  /\ consumed' = consumed \o
                   [i \in 1 .. Avail(head, prod.current_tail) |-> Discarded]
  /\ prod' = [prod EXCEPT !.pc = "idle", !.touched = @ \/ head' # head,
                          !.current_tail = 0]
  /\ UNCHANGED <<tail, data_buff, cons, pushed, rnd>>

(* ------------------------- consumer: Pop ------------------------------- *)

\* Pop: const IndexT current_tail = tail_.value.load(relaxed);
\* The caller's variable holds OutInit before the call.
PopLoadTail ==
  /\ cons.pc = "idle"
  /\ cons' = [ConsIdle EXCEPT !.pc = "pop_load_head", !.op = "Pop",
                              !.current_tail = tail]
  /\ UNCHANGED <<head, tail, data_buff, prod, pushed, consumed, rnd>>

\* Mutant: the slot is copied into the caller's variable before the test for
\* emptiness.
PopLoadHead_ReadFirst ==
  /\ cons.pc = "pop_load_head"
  /\ cons.op = "Pop"
  /\ IF PopIsEmpty(cons.current_tail, head)
       THEN cons' = [cons EXCEPT !.pc = "idle", !.ret = FALSE,
                                 !.data = data_buff[Mask(cons.current_tail)],
                                 !.current_tail = 0, !.current_head = 0]
       ELSE cons' = [cons EXCEPT !.pc = "pop_read", !.current_head = head]
  /\ UNCHANGED <<head, tail, data_buff, prod, pushed, consumed, rnd>>

\* const IndexT current_head = head_.value.load(acquire);
\* if (current_tail == current_head) return false;
PopLoadHead ==
  /\ cons.pc = "pop_load_head"
  /\ cons.op = "Pop"
  /\ IF PopIsEmpty(cons.current_tail, head)
       THEN cons' = [cons EXCEPT !.pc = "idle", !.ret = FALSE,
                                 !.current_tail = 0, !.current_head = 0]
       ELSE cons' = [cons EXCEPT !.pc = "pop_read", !.current_head = head]
  /\ UNCHANGED <<head, tail, data_buff, prod, pushed, consumed, rnd>>

\* data = data_buff_[current_tail & kMask];
PopRead ==
  /\ cons.pc = "pop_read"
  /\ cons.op = "Pop"
  /\ cons' = [cons EXCEPT !.pc = "pop_store",
                          !.data = data_buff[Mask(cons.current_tail)]]
  /\ UNCHANGED <<head, tail, data_buff, prod, pushed, consumed, rnd>>

\* tail_.value.store(current_tail + 1, release); return true;
PopStoreTail ==
  /\ cons.pc = "pop_store"
  /\ cons.op = "Pop"
  /\ tail' = ToIndexT(cons.current_tail + 1)
  /\ consumed' = Append(consumed, cons.data)
  /\ cons' = [cons EXCEPT !.pc = "idle", !.ret = TRUE,
                          !.touched = @ \/ tail' # tail,
                          !.current_tail = 0, !.current_head = 0]
  /\ UNCHANGED <<head, data_buff, prod, pushed, rnd>>

(* ------------------------ consumer: PopBatch --------------------------- *)

\* Locals of one iteration of PopBatchCore's loop.
QbAvailable == Avail(cons.current_head, cons.current_tail)
QbToRead == Min(cons.count - cons.read, QbAvailable)
QbTailOffset == Mask(cons.current_tail)
QbFirstPart == Min(QbToRead, BufferSize - QbTailOffset)

\* while (read < count) ... return read;
QbLoop(c) ==
  IF c.read < c.count
    THEN [c EXCEPT !.pc = "qb_load_head"]
    ELSE [c EXCEPT !.pc = "idle", !.current_tail = 0, !.current_head = 0]

\* What a read past the end of data_buff_ can yield: the array is the last
\* member of the object, and what follows it in memory is not the buffer's.
BeyondArray == {Stale, OutInit}

\* memcpy(buf + at, &data_buff_[offset], n * sizeof(T)) into the caller's
\* array, kept as the sequence buf[1 .. count]; beyond is what the copy
\* reads at the indexes past the end of data_buff_.
MemcpyOut(buf, at, offset, n, beyond) ==
  [i \in DOMAIN buf |->
     IF at < i /\ i <= at + n
       THEN IF offset + (i - at - 1) \in DOMAIN data_buff
              THEN data_buff[offset + (i - at - 1)]
              ELSE beyond
       ELSE buf[i]]

\* PopBatchCore: std::size_t read = 0;
\* IndexT current_tail = tail_.value.load(relaxed);
PopBatchLoadTail(count, cb) ==
  /\ cons.pc = "idle"
  /\ cons' = QbLoop([ConsIdle EXCEPT !.op = "PopBatch", !.count = count,
                                     !.buf = [i \in 1 .. count |-> OutInit],
                                     !.callback = cb, !.current_tail = tail])
  /\ UNCHANGED <<head, tail, data_buff, prod, pushed, consumed, rnd>>

\* const IndexT current_head = head_.value.load(acquire);
\* const IndexT available = current_head - current_tail;
\* if (available == 0) break;
PopBatchLoadHead ==
  /\ cons.pc = "qb_load_head"
  /\ IF Avail(head, cons.current_tail) = 0
       THEN cons' = [cons EXCEPT !.pc = "idle", !.iter = @ + 1,
                                 !.current_tail = 0, !.current_head = 0]
       ELSE cons' = [cons EXCEPT !.pc = "qb_copy_first", !.current_head = head,
                                 !.iter = @ + 1]
  /\ UNCHANGED <<head, tail, data_buff, prod, pushed, consumed, rnd>>

\* std::memcpy(buf + read, &data_buff_[tail_offset], first_part * sizeof(T));
PopBatchCopyFirst ==
  /\ cons.pc = "qb_copy_first"
  /\ cons' = [cons EXCEPT
                !.pc = IF QbToRead > QbFirstPart THEN "qb_copy_second"
                                                 ELSE "qb_store",
                !.buf = MemcpyOut(@, cons.read, QbTailOffset, QbFirstPart,
                                  Stale)]
  /\ UNCHANGED <<head, tail, data_buff, prod, pushed, consumed, rnd>>

\* if (to_read > first_part)
\*   std::memcpy(buf + read + first_part, &data_buff_[0], ...);
\* With more than BufferSize elements between tail and head the second part
\* can be longer than the array, and the copy reads past its end.
PopBatchCopySecond ==
  /\ cons.pc = "qb_copy_second"
  /\ \E beyond \in BeyondArray :
       cons' = [cons EXCEPT
                  !.pc = "qb_store",
                  !.buf = MemcpyOut(@, cons.read + QbFirstPart, 0,
                                    QbToRead - QbFirstPart, beyond)]
  /\ UNCHANGED <<head, tail, data_buff, prod, pushed, consumed, rnd>>

\* Mutant: tail is advanced by what is left of the requested count, not by
\* the length of the chunk read.
PopBatchStoreTail_AdvancesByCount ==
  /\ cons.pc = "qb_store"
  /\ tail' = ToIndexT(cons.current_tail + ToIndexT(cons.count - cons.read))
  /\ consumed' = consumed \o [i \in 1 .. QbToRead |-> cons.buf[cons.read + i]]
  /\ LET c == [cons EXCEPT !.read = @ + QbToRead,
                           !.current_tail = tail',
                           !.touched = @ \/ tail' # tail]
     IN  cons' = IF cons.callback THEN [c EXCEPT !.pc = "qb_callback"]
                                  ELSE QbLoop(c)
  /\ UNCHANGED <<head, data_buff, prod, pushed, rnd>>

\* read += to_read; current_tail += static_cast<IndexT>(to_read);
\* tail_.value.store(current_tail, release);
\* then (*callback)() in the callback overload, else the loop test.
PopBatchStoreTail ==
  /\ cons.pc = "qb_store"
  /\ tail' = ToIndexT(cons.current_tail + ToIndexT(QbToRead))
  /\ consumed' = consumed \o [i \in 1 .. QbToRead |-> cons.buf[cons.read + i]]
  /\ LET c == [cons EXCEPT !.read = @ + QbToRead,
                           !.current_tail = tail',
                           !.touched = @ \/ tail' # tail]
     IN  cons' = IF cons.callback THEN [c EXCEPT !.pc = "qb_callback"]
                                  ELSE QbLoop(c)
  /\ UNCHANGED <<head, data_buff, prod, pushed, rnd>>

\* (*callback)();
PopBatchCallback ==
  /\ cons.pc = "qb_callback"
  /\ cons' = QbLoop([cons EXCEPT !.calls = @ + 1])
  /\ UNCHANGED <<head, tail, data_buff, prod, pushed, consumed, rnd>>

(* ------------------------- consumer: Discard --------------------------- *)

\* Discard: const IndexT current_tail = tail_.value.load(relaxed);
DiscardLoadTail(count) ==
  /\ cons.pc = "idle"
  /\ cons' = [ConsIdle EXCEPT !.pc = "discard_load_head", !.op = "Discard",
                              !.count = count, !.current_tail = tail]
  /\ UNCHANGED <<head, tail, data_buff, prod, pushed, consumed, rnd>>

\* const IndexT current_head = head_.value.load(relaxed);
\* const IndexT available = current_head - current_tail;
\* const std::size_t to_discard = std::min(count, available);
\* if (to_discard > 0) ... else return to_discard;
DiscardLoadHead ==
  /\ cons.pc = "discard_load_head"
  /\ LET to_discard == Min(cons.count, Avail(head, cons.current_tail))
     IN  IF to_discard > 0
           THEN cons' = [cons EXCEPT !.pc = "discard_store",
                                     !.current_head = head,
                                     !.to_discard = to_discard]
           ELSE cons' = [cons EXCEPT !.pc = "idle", !.to_discard = 0,
                                     !.current_tail = 0, !.current_head = 0]
  /\ UNCHANGED <<head, tail, data_buff, prod, pushed, consumed, rnd>>

\* Mutant: tail is advanced by the requested count, not by the number of
\* elements there were to discard.
DiscardStoreTail_AdvancesByCount ==
  /\ cons.pc = "discard_store"
  /\ tail' = ToIndexT(cons.current_tail + ToIndexT(cons.count))
  /\ consumed' = consumed \o [i \in 1 .. cons.to_discard |-> Discarded]
  /\ cons' = [cons EXCEPT !.pc = "idle", !.touched = @ \/ tail' # tail,
                          !.current_tail = 0, !.current_head = 0]
  /\ UNCHANGED <<head, data_buff, prod, pushed, rnd>>

\* tail_.value.store(current_tail + static_cast<IndexT>(to_discard), release);
\* return to_discard;
DiscardStoreTail ==
  /\ cons.pc = "discard_store"
  /\ tail' = ToIndexT(cons.current_tail + ToIndexT(cons.to_discard))
  /\ consumed' = consumed \o [i \in 1 .. cons.to_discard |-> Discarded]
  /\ cons' = [cons EXCEPT !.pc = "idle", !.touched = @ \/ tail' # tail,
                          !.current_tail = 0, !.current_head = 0]
  /\ UNCHANGED <<head, data_buff, prod, pushed, rnd>>

(* -------------------------- consumer: Peek ----------------------------- *)

\* Peek: const IndexT current_tail = tail_.value.load(relaxed);
PeekLoadTail ==
  /\ cons.pc = "idle"
  /\ cons' = [ConsIdle EXCEPT !.pc = "peek_load_head", !.op = "Peek",
                              !.current_tail = tail]
  /\ UNCHANGED <<head, tail, data_buff, prod, pushed, consumed, rnd>>

\* const IndexT current_head = head_.value.load(acquire);
\* if (current_tail == current_head) return nullptr;
\* return &data_buff_[current_tail & kMask];
\* ret tells a non-null result, slot the slot it points to, data the value
\* the caller reads through it on return.
PeekLoadHead ==
  /\ cons.pc = "peek_load_head"
  /\ IF PopIsEmpty(cons.current_tail, head)
       THEN cons' = [cons EXCEPT !.pc = "idle", !.ret = FALSE,
                                 !.current_tail = 0, !.current_head = 0]
       ELSE cons' = [cons EXCEPT !.pc = "idle", !.ret = TRUE,
                                 !.slot = Mask(cons.current_tail),
                                 !.data = data_buff[Mask(cons.current_tail)],
                                 !.current_tail = 0, !.current_head = 0]
  /\ UNCHANGED <<head, tail, data_buff, prod, pushed, consumed, rnd>>

(* --------------------------- consumer: At ------------------------------ *)

\* At: const IndexT current_tail = tail_.value.load(relaxed);
AtLoadTail(index) ==
  /\ cons.pc = "idle"
  /\ cons' = [ConsIdle EXCEPT !.pc = "at_load_head", !.op = "At",
                              !.index = index, !.current_tail = tail]
  /\ UNCHANGED <<head, tail, data_buff, prod, pushed, consumed, rnd>>

\* const IndexT current_head = head_.value.load(acquire);
\* if ((current_head - current_tail) <= static_cast<IndexT>(index))
\*   return nullptr;
\* return &data_buff_[(current_tail + index) & kMask];
AtLoadHead ==
  /\ cons.pc = "at_load_head"
  /\ IF AtIsOutOfRange(head, cons.current_tail, cons.index)
       THEN cons' = [cons EXCEPT !.pc = "idle", !.ret = FALSE,
                                 !.current_tail = 0, !.current_head = 0]
       ELSE cons' = [cons EXCEPT
                       !.pc = "idle", !.ret = TRUE,
                       !.slot = Mask(cons.current_tail + cons.index),
                       !.data = data_buff[Mask(cons.current_tail + cons.index)],
                       !.current_tail = 0, !.current_head = 0]
  /\ UNCHANGED <<head, tail, data_buff, prod, pushed, consumed, rnd>>

(* ------------------------ consumer: operator[] ------------------------- *)

\* operator[]: return data_buff_[(tail_.value.load(relaxed) + index) & kMask];
IndexedAccess(index) ==
  /\ cons.pc = "idle"
  /\ cons' = [ConsIdle EXCEPT !.op = "operator[]", !.index = index,
                              !.ret = TRUE,
                              !.slot = Mask(tail + index),
                              !.data = data_buff[Mask(tail + index)]]
  /\ UNCHANGED <<head, tail, data_buff, prod, pushed, consumed, rnd>>

(* ---------------------- consumer: ConsumerClear ------------------------ *)

\* ConsumerClear: head_.value.load(relaxed), the argument of the store.
ConsumerClearLoadHead ==
  /\ cons.pc = "idle"
  /\ cons' = [ConsIdle EXCEPT !.pc = "cclear_store", !.op = "ConsumerClear",
                              !.current_head = head]
  /\ UNCHANGED <<head, tail, data_buff, prod, pushed, consumed, rnd>>

\* Mutant: a clear that resets tail to 0, as the constructor does.
ConsumerClearStoreTail_Reset ==
  /\ cons.pc = "cclear_store"
  /\ tail' = 0
  /\ consumed' = consumed \o
                   [i \in 1 .. Avail(cons.current_head, tail) |-> Discarded]
  /\ cons' = [cons EXCEPT !.pc = "idle", !.touched = @ \/ tail' # tail,
                          !.current_head = 0]
  /\ UNCHANGED <<head, data_buff, prod, pushed, rnd>>

\* tail_.value.store(<loaded head>, relaxed);
\* Ghost: the elements between the old tail and the loaded head are dropped.
ConsumerClearStoreTail ==
  /\ cons.pc = "cclear_store"
  /\ tail' = cons.current_head
  /\ consumed' = consumed \o
                   [i \in 1 .. Avail(cons.current_head, tail) |-> Discarded]
  /\ cons' = [cons EXCEPT !.pc = "idle", !.touched = @ \/ tail' # tail,
                          !.current_head = 0]
  /\ UNCHANGED <<head, data_buff, prod, pushed, rnd>>

(* ------------------------------- queries ------------------------------- *)

\* Size(): head_.value.load(acquire) - tail_.value.load(relaxed), returned
\* as IndexT.  Both loads in the current state.
Size == ToIndexT(head - tail)

\* Mutant: a design that keeps one slot free to tell full from empty.
Available_OneSlotFree == ToIndexT(ToSizeT(BufferSize - 1 - ToSizeT(head - tail)))

\* Available(): BufferSize - (head - tail), the int difference converted to
\* std::size_t, the result returned as IndexT.
Available == ToIndexT(ToSizeT(BufferSize - ToSizeT(head - tail)))

IsEmpty == Size = 0

IsFull == Available = 0

Capacity == BufferSize

\* A call of Available() or IsFull() by the producer thread and of Size() or
\* IsEmpty() by the consumer thread.  The caller owns one of the two counters
\* the query loads, and no other thread stores it, so the call's two loads
\* read the values one state holds: the state of the load of the other
\* counter.  One step.
CallAvailable ==
  /\ prod.pc = "idle"
  /\ prod' = [ProdIdle EXCEPT !.op = "Available", !.result = Available]
  /\ UNCHANGED <<head, tail, data_buff, cons, pushed, consumed, rnd>>

CallIsFull ==
  /\ prod.pc = "idle"
  /\ prod' = [ProdIdle EXCEPT !.op = "IsFull", !.ret = IsFull]
  /\ UNCHANGED <<head, tail, data_buff, cons, pushed, consumed, rnd>>

CallSize ==
  /\ cons.pc = "idle"
  /\ cons' = [ConsIdle EXCEPT !.op = "Size", !.result = Size]
  /\ UNCHANGED <<head, tail, data_buff, prod, pushed, consumed, rnd>>

CallIsEmpty ==
  /\ cons.pc = "idle"
  /\ cons' = [ConsIdle EXCEPT !.op = "IsEmpty", !.ret = IsEmpty]
  /\ UNCHANGED <<head, tail, data_buff, prod, pushed, consumed, rnd>>

\* The value Size() or Available() computes from the two values it loaded.
QueryValue(q, h, t) ==
  IF q = "Size" THEN ToIndexT(h - t)
                ELSE ToIndexT(ToSizeT(BufferSize - ToSizeT(h - t)))

\* Size() or Available() as two loads: the operands of the subtraction are
\* evaluated in an order the compiler chooses, so either counter can be the
\* one loaded first.  first tells which; the other is loaded, and the result
\* computed, in the second step.
QueryFirstLoadByProducer(q, first) ==
  /\ prod.pc = "idle"
  /\ prod' = [ProdIdle EXCEPT
                !.op = q,
                !.pc = IF first = "head" THEN "query_load_tail"
                                         ELSE "query_load_head",
                !.current_head = IF first = "head" THEN head ELSE 0,
                !.current_tail = IF first = "tail" THEN tail ELSE 0]
  /\ UNCHANGED <<head, tail, data_buff, cons, pushed, consumed, rnd>>

QuerySecondLoadByProducer ==
  /\ prod.pc \in {"query_load_tail", "query_load_head"}
  /\ LET h == IF prod.pc = "query_load_head" THEN head ELSE prod.current_head
         t == IF prod.pc = "query_load_tail" THEN tail ELSE prod.current_tail
     IN  prod' = [prod EXCEPT !.pc = "idle",
                              !.result = QueryValue(prod.op, h, t),
                              !.current_head = 0, !.current_tail = 0]
  /\ UNCHANGED <<head, tail, data_buff, cons, pushed, consumed, rnd>>

QueryFirstLoadByConsumer(q, first) ==
  /\ cons.pc = "idle"
  /\ cons' = [ConsIdle EXCEPT
                !.op = q,
                !.pc = IF first = "head" THEN "query_load_tail"
                                         ELSE "query_load_head",
                !.current_head = IF first = "head" THEN head ELSE 0,
                !.current_tail = IF first = "tail" THEN tail ELSE 0]
  /\ UNCHANGED <<head, tail, data_buff, prod, pushed, consumed, rnd>>

QuerySecondLoadByConsumer ==
  /\ cons.pc \in {"query_load_tail", "query_load_head"}
  /\ LET h == IF cons.pc = "query_load_head" THEN head ELSE cons.current_head
         t == IF cons.pc = "query_load_tail" THEN tail ELSE cons.current_tail
     IN  cons' = [cons EXCEPT !.pc = "idle",
                              !.result = QueryValue(cons.op, h, t),
                              !.current_head = 0, !.current_tail = 0]
  /\ UNCHANGED <<head, tail, data_buff, prod, pushed, consumed, rnd>>

(* --------------------------- specifications ---------------------------- *)

\* The producer of a bounded run offers at most MaxPush elements in all.
Offer(n) == Len(pushed) + n <= MaxPush

\* The same for the runs that include the clear operations.
OfferClear(n) == Len(pushed) + n <= MaxPushClear

\* The consumer of such a run starts no operation once it has been handed
\* more elements than the producer offers in all (which only a buffer whose
\* counters have come apart can do).
Take == Len(consumed) <= MaxPushClear

\* Single-threaded use, as in the unit tests: a thread starts an operation
\* only when the other thread has none in flight.
ProducerTurn == cons.pc = "idle"
ConsumerTurn == prod.pc = "idle"

\* Every producer-role operation against every consumer-role operation, all
\* interleavings of their steps.
Next ==
  \/ (OfferClear(1) /\ PushLoadHead)
  \/ PushLoadTail
  \/ PushWrite
  \/ PushStoreHead
  \/ (OfferClear(1) /\ PushFromCallbackLoadHead)
  \/ PushFromCallbackLoadTail
  \/ PushFromCallbackWrite
  \/ PushFromCallbackStoreHead
  \/ (\E n \in 0 .. MaxBatch : OfferClear(n) /\ PushBatchLoadHead(n, FALSE))
  \/ PushBatchLoadTail
  \/ PushBatchCopyFirst
  \/ PushBatchCopySecond
  \/ PushBatchStoreHead
  \/ ProducerClearLoadTail
  \/ ProducerClearStoreHead
  \/ (Take /\ PopLoadTail)
  \/ PopLoadHead
  \/ PopRead
  \/ PopStoreTail
  \/ (\E n \in 0 .. MaxBatch : Take /\ PopBatchLoadTail(n, FALSE))
  \/ PopBatchLoadHead
  \/ PopBatchCopyFirst
  \/ PopBatchCopySecond
  \/ PopBatchStoreTail
  \/ (\E n \in 0 .. MaxDiscard : Take /\ DiscardLoadTail(n))
  \/ DiscardLoadHead
  \/ DiscardStoreTail
  \/ (Take /\ ConsumerClearLoadHead)
  \/ ConsumerClearStoreTail

Spec == InitStart /\ [][Next]_vars

\* As Spec, without ProducerClear and ConsumerClear.
NoClearNext ==
  \/ (Offer(1) /\ PushLoadHead)
  \/ PushLoadTail
  \/ PushWrite
  \/ PushStoreHead
  \/ (Offer(1) /\ PushFromCallbackLoadHead)
  \/ PushFromCallbackLoadTail
  \/ PushFromCallbackWrite
  \/ PushFromCallbackStoreHead
  \/ (\E n \in 0 .. MaxBatch : Offer(n) /\ PushBatchLoadHead(n, FALSE))
  \/ PushBatchLoadTail
  \/ PushBatchCopyFirst
  \/ PushBatchCopySecond
  \/ PushBatchStoreHead
  \/ PopLoadTail
  \/ PopLoadHead
  \/ PopRead
  \/ PopStoreTail
  \/ (\E n \in 0 .. MaxBatch : PopBatchLoadTail(n, FALSE))
  \/ PopBatchLoadHead
  \/ PopBatchCopyFirst
  \/ PopBatchCopySecond
  \/ PopBatchStoreTail
  \/ (\E n \in 0 .. MaxDiscard : DiscardLoadTail(n))
  \/ DiscardLoadHead
  \/ DiscardStoreTail

SpecNoClear == InitStart /\ [][NoClearNext]_vars

\* One producer calling Push, one consumer calling Pop, all interleavings.
PushPopNext ==
  \/ (Offer(1) /\ PushLoadHead)
  \/ PushLoadTail
  \/ PushWrite
  \/ PushStoreHead
  \/ PopLoadTail
  \/ PopLoadHead
  \/ PopRead
  \/ PopStoreTail

SpecPushPop == InitStart /\ [][PushPopNext]_vars

\* One producer calling PushBatch, one consumer calling PopBatch, all
\* interleavings.
BatchNext ==
  \/ (\E n \in 0 .. MaxBatch : Offer(n) /\ PushBatchLoadHead(n, FALSE))
  \/ PushBatchLoadTail
  \/ PushBatchCopyFirst
  \/ PushBatchCopySecond
  \/ PushBatchStoreHead
  \/ (\E n \in 0 .. MaxBatch : PopBatchLoadTail(n, FALSE))
  \/ PopBatchLoadHead
  \/ PopBatchCopyFirst
  \/ PopBatchCopySecond
  \/ PopBatchStoreTail

SpecBatch == InitStart /\ [][BatchNext]_vars

\* Push, PushFromCallback and Pop called one at a time.
SingleSeqNext ==
  \/ (ProducerTurn /\ Offer(1) /\ PushLoadHead)
  \/ PushLoadTail
  \/ PushWrite
  \/ PushStoreHead
  \/ (ProducerTurn /\ Offer(1) /\ PushFromCallbackLoadHead)
  \/ PushFromCallbackLoadTail
  \/ PushFromCallbackWrite
  \/ PushFromCallbackStoreHead
  \/ (ConsumerTurn /\ PopLoadTail)
  \/ PopLoadHead
  \/ PopRead
  \/ PopStoreTail

SpecSingleSeq == InitStart /\ [][SingleSeqNext]_vars

\* The wraparound tests: from the constructed buffer, rounds that push m
\* values and then pop m values, 1 <= m <= BufferSize.
RoundBegin(m) ==
  /\ prod.pc = "idle"
  /\ cons.pc = "idle"
  /\ Len(consumed) = rnd.base + rnd.m
  /\ Len(pushed) + m <= MaxRoundPush
  /\ rnd' = [m |-> m, base |-> Len(pushed)]
  /\ UNCHANGED <<head, tail, data_buff, prod, cons, pushed, consumed>>

RoundPush == ProducerTurn /\ Len(pushed) < rnd.base + rnd.m

RoundPop ==
  /\ ConsumerTurn
  /\ Len(pushed) = rnd.base + rnd.m
  /\ Len(consumed) < Len(pushed)

RoundsNext ==
  \/ (\E m \in 1 .. BufferSize : RoundBegin(m))
  \/ (RoundPush /\ PushLoadHead)
  \/ PushLoadTail
  \/ PushWrite
  \/ PushStoreHead
  \/ (RoundPop /\ PopLoadTail)
  \/ PopLoadHead
  \/ PopRead
  \/ PopStoreTail

SpecRounds == Init /\ [][RoundsNext]_vars

\* The batch tests: PushBatch(src, n) on an empty buffer, then PopBatch(dst, k)
\* with k the result of that PushBatch, nothing in between; then again.
BatchPairNext ==
  \/ (\E n \in 0 .. MaxSeqBatch :
        /\ ProducerTurn /\ IsEmpty /\ Offer(n)
        /\ PushBatchLoadHead(n, FALSE))
  \/ PushBatchLoadTail
  \/ PushBatchCopyFirst
  \/ PushBatchCopySecond
  \/ PushBatchStoreHead
  \/ (/\ ConsumerTurn /\ prod.op = "PushBatch" /\ Size = prod.written
      /\ PopBatchLoadTail(prod.written, FALSE))
  \/ PopBatchLoadHead
  \/ PopBatchCopyFirst
  \/ PopBatchCopySecond
  \/ PopBatchStoreTail

SpecBatchPair == InitStart /\ [][BatchPairNext]_vars

\* Single-threaded use of the producer and consumer operations, as in the
\* unit tests: one call at a time, each run to its return.
SeqNext ==
  \/ (ProducerTurn /\ Offer(1) /\ PushLoadHead)
  \/ PushLoadTail
  \/ PushWrite
  \/ PushStoreHead
  \/ (\E n \in 0 .. MaxSeqBatch :
        ProducerTurn /\ Offer(n) /\ PushBatchLoadHead(n, FALSE))
  \/ PushBatchLoadTail
  \/ PushBatchCopyFirst
  \/ PushBatchCopySecond
  \/ PushBatchStoreHead
  \/ (ConsumerTurn /\ PopLoadTail)
  \/ PopLoadHead
  \/ PopRead
  \/ PopStoreTail
  \/ (\E n \in 0 .. MaxSeqBatch : ConsumerTurn /\ PopBatchLoadTail(n, FALSE))
  \/ PopBatchLoadHead
  \/ PopBatchCopyFirst
  \/ PopBatchCopySecond
  \/ PopBatchStoreTail
  \/ (\E n \in 0 .. MaxDiscard : ConsumerTurn /\ DiscardLoadTail(n))
  \/ DiscardLoadHead
  \/ DiscardStoreTail
  \/ (ConsumerTurn /\ PeekLoadTail)
  \/ PeekLoadHead
  \/ (\E i \in (0 .. MaxIndex) \cup {IndexMod} :
        ConsumerTurn /\ AtLoadTail(i))
  \/ AtLoadHead
  \/ (\E i \in 0 .. MaxIndex : ConsumerTurn /\ IndexedAccess(i))

SpecSeq == InitStart /\ [][SeqNext]_vars

\* Single-threaded use of Push, Pop and the two clear operations, as in the
\* query tests: one call at a time.
SeqClearNext ==
  \/ (ProducerTurn /\ Offer(1) /\ PushLoadHead)
  \/ PushLoadTail
  \/ PushWrite
  \/ PushStoreHead
  \/ (ProducerTurn /\ ProducerClearLoadTail)
  \/ ProducerClearStoreHead
  \/ (ConsumerTurn /\ PopLoadTail)
  \/ PopLoadHead
  \/ PopRead
  \/ PopStoreTail
  \/ (ConsumerTurn /\ ConsumerClearLoadHead)
  \/ ConsumerClearStoreTail

SpecSeqClear == InitStart /\ [][SeqClearNext]_vars

\* ProducerClear against a consumer in flight: the producer pushes ClearAt
\* values, calls ProducerClear (once or more) and goes on pushing; the
\* consumer calls Pop, PopBatch and Discard at any time before the first push
\* that follows the clear, and Pop and PopBatch after it.  All interleavings.
PushAroundClear ==
  \/ Len(pushed) < ClearAt
  \/ /\ Len(pushed) = ClearAt /\ prod.op = "ProducerClear"
     /\ cons.op = "Discard" => cons.pc = "idle"
  \/ Len(pushed) > ClearAt

TakeRace == Len(consumed) <= MaxPush

ClearRaceNext ==
  \/ (Offer(1) /\ PushAroundClear /\ PushLoadHead)
  \/ PushLoadTail
  \/ PushWrite
  \/ PushStoreHead
  \/ (Len(pushed) = ClearAt /\ ProducerClearLoadTail)
  \/ ProducerClearStoreHead
  \/ (TakeRace /\ PopLoadTail)
  \/ PopLoadHead
  \/ PopRead
  \/ PopStoreTail
  \/ (\E n \in 1 .. MaxBatch : TakeRace /\ PopBatchLoadTail(n, FALSE))
  \/ PopBatchLoadHead
  \/ PopBatchCopyFirst
  \/ PopBatchCopySecond
  \/ PopBatchStoreTail
  \/ (\E n \in 1 .. MaxDiscard :
        TakeRace /\ Len(pushed) <= ClearAt /\ DiscardLoadTail(n))
  \/ DiscardLoadHead
  \/ DiscardStoreTail

SpecClearRace == InitStart /\ [][ClearRaceNext]_vars

\* Every operation of the interface: the producer-role operations and the
\* producer's queries against the consumer-role operations, the accessors and
\* the consumer's queries, all interleavings.
OfferAll(n) == Len(pushed) + n <= MaxPushAll

\* The indexes At and operator[] are called with: the oldest element and the
\* one after it.
AccessIndex == {0, 1}

TakeAll == Len(consumed) <= MaxPushAll

AllNext ==
  \/ (OfferAll(1) /\ PushLoadHead)
  \/ PushLoadTail
  \/ PushWrite
  \/ PushStoreHead
  \/ (OfferAll(1) /\ PushFromCallbackLoadHead)
  \/ PushFromCallbackLoadTail
  \/ PushFromCallbackWrite
  \/ PushFromCallbackStoreHead
  \/ (\E n \in 0 .. MaxBatch : OfferAll(n) /\ PushBatchLoadHead(n, FALSE))
  \/ PushBatchLoadTail
  \/ PushBatchCopyFirst
  \/ PushBatchCopySecond
  \/ PushBatchStoreHead
  \/ ProducerClearLoadTail
  \/ ProducerClearStoreHead
  \/ CallAvailable
  \/ CallIsFull
  \/ (TakeAll /\ PopLoadTail)
  \/ PopLoadHead
  \/ PopRead
  \/ PopStoreTail
  \/ (\E n \in 0 .. MaxBatch : TakeAll /\ PopBatchLoadTail(n, FALSE))
  \/ PopBatchLoadHead
  \/ PopBatchCopyFirst
  \/ PopBatchCopySecond
  \/ PopBatchStoreTail
  \/ (\E n \in 0 .. MaxDiscard : TakeAll /\ DiscardLoadTail(n))
  \/ DiscardLoadHead
  \/ DiscardStoreTail
  \/ (TakeAll /\ ConsumerClearLoadHead)
  \/ ConsumerClearStoreTail
  \/ (TakeAll /\ PeekLoadTail)
  \/ PeekLoadHead
  \/ (\E i \in AccessIndex : TakeAll /\ AtLoadTail(i))
  \/ AtLoadHead
  \/ (\E i \in AccessIndex : TakeAll /\ IndexedAccess(i))
  \/ CallSize
  \/ CallIsEmpty

SpecAll == InitStart /\ [][AllNext]_vars

\* Every operation that stores a counter, one call at a time.
SeqStoreNext ==
  \/ (ProducerTurn /\ Offer(1) /\ PushLoadHead)
  \/ PushLoadTail
  \/ PushWrite
  \/ PushStoreHead
  \/ (ProducerTurn /\ Offer(1) /\ PushFromCallbackLoadHead)
  \/ PushFromCallbackLoadTail
  \/ PushFromCallbackWrite
  \/ PushFromCallbackStoreHead
  \/ (\E n \in 0 .. MaxSeqBatch :
        ProducerTurn /\ Offer(n) /\ PushBatchLoadHead(n, FALSE))
  \/ PushBatchLoadTail
  \/ PushBatchCopyFirst
  \/ PushBatchCopySecond
  \/ PushBatchStoreHead
  \/ (ProducerTurn /\ ProducerClearLoadTail)
  \/ ProducerClearStoreHead
  \/ (ConsumerTurn /\ PopLoadTail)
  \/ PopLoadHead
  \/ PopRead
  \/ PopStoreTail
  \/ (\E n \in 0 .. MaxSeqBatch : ConsumerTurn /\ PopBatchLoadTail(n, FALSE))
  \/ PopBatchLoadHead
  \/ PopBatchCopyFirst
  \/ PopBatchCopySecond
  \/ PopBatchStoreTail
  \/ (\E n \in 0 .. MaxDiscard : ConsumerTurn /\ DiscardLoadTail(n))
  \/ DiscardLoadHead
  \/ DiscardStoreTail
  \/ (ConsumerTurn /\ ConsumerClearLoadHead)
  \/ ConsumerClearStoreTail

SpecSeqStore == InitStart /\ [][SeqStoreNext]_vars

\* The threaded test and example: the producer calls Push again and again,
\* offering the same value until Push returns true, until MaxPush values are
\* in; the consumer calls Pop again and again until it has popped MaxPush
\* values.  Both threads are scheduled fairly: a thread that can take a step
\* eventually takes one.
ProducerThread ==
  \/ (Len(pushed) < MaxPush /\ PushLoadHead)
  \/ PushLoadTail
  \/ PushWrite
  \/ PushStoreHead

ConsumerThread ==
  \/ (Len(consumed) < MaxPush /\ PopLoadTail)
  \/ PopLoadHead
  \/ PopRead
  \/ PopStoreTail

RetryNext == ProducerThread \/ ConsumerThread

SpecRetry ==
  /\ InitStart
  /\ [][RetryNext]_vars
  /\ WF_vars(ProducerThread)
  /\ WF_vars(ConsumerThread)

\* The queries between the operations of the other thread: the producer
\* calls its operations and Available(), the consumer its operations and
\* Size(), all interleavings, except that ProducerClear is called with no
\* consumer operation in flight and the consumer starts none before it
\* returns.
ClearAlone == prod.pc # "pclear_store"

QueryNext ==
  \/ (OfferClear(1) /\ PushLoadHead)
  \/ PushLoadTail
  \/ PushWrite
  \/ PushStoreHead
  \/ (OfferClear(1) /\ PushFromCallbackLoadHead)
  \/ PushFromCallbackLoadTail
  \/ PushFromCallbackWrite
  \/ PushFromCallbackStoreHead
  \/ (\E n \in 0 .. MaxBatch : OfferClear(n) /\ PushBatchLoadHead(n, FALSE))
  \/ PushBatchLoadTail
  \/ PushBatchCopyFirst
  \/ PushBatchCopySecond
  \/ PushBatchStoreHead
  \/ (ProducerTurn /\ ProducerClearLoadTail)
  \/ ProducerClearStoreHead
  \/ CallAvailable
  \/ (ClearAlone /\ Take /\ PopLoadTail)
  \/ PopLoadHead
  \/ PopRead
  \/ PopStoreTail
  \/ (\E n \in 0 .. MaxBatch : ClearAlone /\ Take /\ PopBatchLoadTail(n, FALSE))
  \/ PopBatchLoadHead
  \/ PopBatchCopyFirst
  \/ PopBatchCopySecond
  \/ PopBatchStoreTail
  \/ (\E n \in 0 .. MaxDiscard : ClearAlone /\ Take /\ DiscardLoadTail(n))
  \/ DiscardLoadHead
  \/ DiscardStoreTail
  \/ (ClearAlone /\ Take /\ ConsumerClearLoadHead)
  \/ ConsumerClearStoreTail
  \/ (ClearAlone /\ CallSize)

SpecQuery == InitStart /\ [][QueryNext]_vars

\* One producer calling PushBatch, one consumer calling PopBatch, each with
\* or without a callback, all interleavings.
BatchCallbackNext ==
  \/ (\E n \in 0 .. MaxBatch, cb \in BOOLEAN :
        Offer(n) /\ PushBatchLoadHead(n, cb))
  \/ PushBatchLoadTail
  \/ PushBatchCopyFirst
  \/ PushBatchCopySecond
  \/ PushBatchStoreHead
  \/ PushBatchCallback
  \/ (\E n \in 0 .. MaxBatch, cb \in BOOLEAN : PopBatchLoadTail(n, cb))
  \/ PopBatchLoadHead
  \/ PopBatchCopyFirst
  \/ PopBatchCopySecond
  \/ PopBatchStoreTail
  \/ PopBatchCallback

SpecBatchCallback == InitStart /\ [][BatchCallbackNext]_vars

\* Every producer-role operation but ProducerClear against every
\* consumer-role operation and the accessors Peek and At, all interleavings.
NoProducerClearNext ==
  \/ (Offer(1) /\ PushLoadHead)
  \/ PushLoadTail
  \/ PushWrite
  \/ PushStoreHead
  \/ (Offer(1) /\ PushFromCallbackLoadHead)
  \/ PushFromCallbackLoadTail
  \/ PushFromCallbackWrite
  \/ PushFromCallbackStoreHead
  \/ (\E n \in 0 .. MaxBatch : Offer(n) /\ PushBatchLoadHead(n, FALSE))
  \/ PushBatchLoadTail
  \/ PushBatchCopyFirst
  \/ PushBatchCopySecond
  \/ PushBatchStoreHead
  \/ (TakeRace /\ PopLoadTail)
  \/ PopLoadHead
  \/ PopRead
  \/ PopStoreTail
  \/ (\E n \in 0 .. MaxBatch : TakeRace /\ PopBatchLoadTail(n, FALSE))
  \/ PopBatchLoadHead
  \/ PopBatchCopyFirst
  \/ PopBatchCopySecond
  \/ PopBatchStoreTail
  \/ (\E n \in 0 .. MaxDiscard : TakeRace /\ DiscardLoadTail(n))
  \/ DiscardLoadHead
  \/ DiscardStoreTail
  \/ (TakeRace /\ PeekLoadTail)
  \/ PeekLoadHead
  \/ (\E i \in AccessIndex : TakeRace /\ AtLoadTail(i))
  \/ AtLoadHead
  \/ (TakeRace /\ ConsumerClearLoadHead)
  \/ ConsumerClearStoreTail

SpecNoProducerClear == InitStart /\ [][NoProducerClearNext]_vars

\* ConsumerClear against a producer in flight: the producer calls Push,
\* PushFromCallback and PushBatch, the consumer ConsumerClear and Pop, all
\* interleavings.
ConsumerClearRaceNext ==
  \/ (Offer(1) /\ PushLoadHead)
  \/ PushLoadTail
  \/ PushWrite
  \/ PushStoreHead
  \/ (Offer(1) /\ PushFromCallbackLoadHead)
  \/ PushFromCallbackLoadTail
  \/ PushFromCallbackWrite
  \/ PushFromCallbackStoreHead
  \/ (\E n \in 0 .. MaxBatch : Offer(n) /\ PushBatchLoadHead(n, FALSE))
  \/ PushBatchLoadTail
  \/ PushBatchCopyFirst
  \/ PushBatchCopySecond
  \/ PushBatchStoreHead
  \/ (TakeRace /\ ConsumerClearLoadHead)
  \/ ConsumerClearStoreTail
  \/ (TakeRace /\ PopLoadTail)
  \/ PopLoadHead
  \/ PopRead
  \/ PopStoreTail

SpecConsumerClearRace == InitStart /\ [][ConsumerClearRaceNext]_vars

\* Size() and Available() called by the producer thread between its own
\* Push and PushBatch calls, and by the consumer thread between its own Pop,
\* PopBatch and Discard calls, each query two loads in either order, while the
\* other thread runs its operations.  All interleavings.
QueryOps == {"Size", "Available"}

LoadOrder == {"head", "tail"}

QueryRaceNext ==
  \/ (Offer(1) /\ PushLoadHead)
  \/ PushLoadTail
  \/ PushWrite
  \/ PushStoreHead
  \/ (\E n \in 1 .. MaxBatch : Offer(n) /\ PushBatchLoadHead(n, FALSE))
  \/ PushBatchLoadTail
  \/ PushBatchCopyFirst
  \/ PushBatchCopySecond
  \/ PushBatchStoreHead
  \/ (\E q \in QueryOps, first \in LoadOrder :
        QueryFirstLoadByProducer(q, first))
  \/ QuerySecondLoadByProducer
  \/ PopLoadTail
  \/ PopLoadHead
  \/ PopRead
  \/ PopStoreTail
  \/ (\E n \in 1 .. MaxBatch : PopBatchLoadTail(n, FALSE))
  \/ PopBatchLoadHead
  \/ PopBatchCopyFirst
  \/ PopBatchCopySecond
  \/ PopBatchStoreTail
  \/ (\E n \in 1 .. MaxDiscard : DiscardLoadTail(n))
  \/ DiscardLoadHead
  \/ DiscardStoreTail
  \/ (\E q \in QueryOps, first \in LoadOrder :
        QueryFirstLoadByConsumer(q, first))
  \/ QuerySecondLoadByConsumer

SpecQueryRace == InitStart /\ [][QueryRaceNext]_vars

(* ------------------------------ properties ----------------------------- *)

IsPrefix(s, t) ==
  /\ Len(s) <= Len(t)
  /\ \A i \in 1 .. Len(s) : s[i] = t[i]

\* Ghost: the number of accepted elements not yet handed to the consumer.
Unread == Len(pushed) - Len(consumed)

\* The slots the producer's next step writes.
ProducerWrites ==
  CASE prod.pc = "push_write" -> {Mask(prod.current_head)}
    [] prod.pc = "pb_copy_first" ->
         {PbHeadOffset + i : i \in 0 .. PbFirstPart - 1}
    [] prod.pc = "pb_copy_second" -> 0 .. PbToWrite - PbFirstPart - 1
    [] OTHER -> {}

\* The slots the next step of the consumer's Pop or PopBatch reads.
ConsumerReads ==
  CASE cons.pc = "pop_read" -> {Mask(cons.current_tail)}
    [] cons.pc = "qb_copy_first" ->
         {QbTailOffset + i : i \in 0 .. QbFirstPart - 1}
    [] cons.pc = "qb_copy_second" -> 0 .. QbToRead - QbFirstPart - 1
    [] OTHER -> {}

\* The slots of the elements between tail and head: published and not yet
\* released by a store of tail.
UnreadSlots == {Mask(tail + i) : i \in 0 .. ToIndexT(head - tail) - 1}

PushLike == prod.op \in {"Push", "PushFromCallback"}

\* The elements the buffer holds, oldest first: the slots from tail up to
\* head.
Content == [j \in 1 .. Size |-> data_buff[Mask(tail + j - 1)]]

\* Ghost: the accepted values not yet handed to the consumer, oldest first.
UnreadSeq == SubSeq(pushed, Len(consumed) + 1, Len(pushed))

\* C1: with one producer calling Push and one consumer calling Pop, in every
\* interleaving of their steps the values returned by the successful Pops
\* are, in order, a prefix of the values accepted by the successful Pushes.
C1_PopsArePrefixOfPushes == IsPrefix(consumed, pushed)

\* C2: in no state of any interleaving of the producer-role operations with
\* the consumer-role operations is the producer about to write a slot that
\* the consumer, inside Pop or PopBatch, is about to read.
C2_NoSlotWrittenWhileRead == ProducerWrites \cap ConsumerReads = {}

\* C3: after every atomic load or store of every interleaving of the eight
\* operations, the difference head - tail taken modulo the index range lies
\* in [0, BufferSize].
C3_DifferenceWithinCapacity == ToIndexT(head - tail) \in 0 .. BufferSize

\* C4: without the clear operations, the producer writes only slots that hold
\* no unread element, and so every element handed to the consumer is the
\* element pushed at that position unless it was discarded.
C4_NoUnreadSlotOverwritten ==
  /\ ProducerWrites \cap UnreadSlots = {}
  /\ Len(consumed) <= Len(pushed)
  /\ \A i \in 1 .. Min(Len(consumed), Len(pushed)) :
       consumed[i] \in {pushed[i], Discarded}

\* C5: while the consumer has called nothing, a Push succeeds only as one of
\* the first BufferSize pushes into the empty buffer, and a Push that returns
\* false has changed neither counter nor any slot.
C5_PushAfterFillFails ==
  (cons.op = "none" /\ prod.pc = "idle" /\ prod.op = "Push") =>
     /\ prod.ret => Len(pushed) <= BufferSize
     /\ ~prod.ret => ~prod.touched

\* C6: Pop goes past its emptiness test only when the buffer holds an unread
\* element, and a Pop that returns false has changed neither tail nor the
\* caller's output variable (head and the slots are written by no step of
\* Pop).
C6_PopOnEmptyFails ==
  /\ (cons.op = "Pop" /\ cons.pc \in {"pop_read", "pop_store"}) => Unread > 0
  /\ (cons.op = "Pop" /\ cons.pc = "idle" /\ ~cons.ret) =>
        (~cons.touched /\ cons.data = OutInit)

\* C6 witness: a Pop has failed on a buffer drained of elements that were
\* pushed into it.
C6_Witness ==
  /\ cons.op = "Pop" /\ cons.pc = "idle" /\ ~cons.ret
  /\ prod.pc = "idle"
  /\ Len(pushed) > 0
  /\ Unread = 0

\* C7: when Push or PushFromCallback has loaded both counters, the difference
\* it computes is the number of unread elements, also when head has wrapped
\* and tail has not, and it goes on to write only if fewer than BufferSize
\* elements are unread.
C7_PushDifferenceIsCount ==
  (PushLike /\ prod.pc = "push_write") =>
     /\ PushDiff(prod.current_head, prod.current_tail) = Unread
     /\ Unread < BufferSize

\* C8: in rounds that push m values and then pop m values, continued until
\* both counters have wrapped, every Push and every Pop returns true and the
\* popped values are the pushed values in order.
C8_RoundsSucceedAcrossWrap ==
  /\ (prod.op = "Push" /\ prod.pc = "idle") => prod.ret
  /\ (cons.op = "Pop" /\ cons.pc = "idle") => cons.ret
  /\ IsPrefix(consumed, pushed)

\* C8 witness: a round has completed after both counters wrapped past 255.
C8_Witness ==
  /\ Len(consumed) > IndexMod
  /\ consumed = pushed
  /\ tail = ToIndexT(Len(consumed))
  /\ head = tail
  /\ cons.op = "Pop" /\ cons.pc = "idle" /\ cons.ret

\* C9: a PushFromCallback that returns true was called with a free slot, has
\* invoked the callback exactly once and has made its result the newest
\* element; one that returns false has not invoked the callback and has
\* changed neither counter nor any slot.
C9_CallbackIffPushed ==
  (prod.op = "PushFromCallback" /\ prod.pc = "idle" /\ cons.pc = "idle") =>
     /\ prod.ret =>
          /\ Unread <= BufferSize
          /\ prod.calls = 1
          /\ data_buff[Mask(head - 1)] = pushed[Len(pushed)]
     /\ ~prod.ret => (prod.calls = 0 /\ ~prod.touched)

\* C10: with one producer calling PushBatch and one consumer calling
\* PopBatch, in every interleaving the chunks returned by PopBatch, joined,
\* are a prefix of the chunks accepted by PushBatch, joined.
C10_BatchFifo == IsPrefix(consumed, pushed)

\* C10 witness: BufferSize elements went through and PopBatch has read a
\* further chunk that straddles the end of the array.
C10_Witness ==
  /\ Len(consumed) >= BufferSize
  /\ cons.op = "PopBatch" /\ cons.pc = "qb_store"
  /\ QbToRead > QbFirstPart

\* A step of the producer that returns from PushBatch, and a step of the
\* consumer that returns from PopBatch, Discard, Peek or At.
PushBatchReturns == prod' # prod /\ prod'.op = "PushBatch" /\ prod'.pc = "idle"

ConsumerReturns(op) == cons' # cons /\ cons'.op = op /\ cons'.pc = "idle"

\* C11: PushBatch(src, n) on an empty buffer returns k <= n, and the
\* PopBatch(dst, k) that follows it returns k, has filled dst[0..k) with
\* src[0..k) (the k values offered first, in order) and leaves the buffer
\* empty.
C11_BatchConservation ==
  [][/\ PushBatchReturns => prod'.written <= prod'.count
     /\ ConsumerReturns("PopBatch") =>
          /\ cons'.count = prod.written
          /\ cons'.read = prod.written
          /\ cons'.buf = [i \in 1 .. prod.written |->
                           Len(pushed') - prod.written + i]
          /\ cons'.buf = SubSeq(pushed', Len(pushed') - prod.written + 1,
                                Len(pushed'))
          /\ IsEmpty']_vars

\* C11 witness: a PushBatch of more than BufferSize values took BufferSize of
\* them, its chunk wrapping the 8-bit head, and the PopBatch that followed
\* has returned them all.
C11_Witness ==
  /\ prod.op = "PushBatch" /\ prod.pc = "idle"
  /\ prod.count > BufferSize /\ prod.written = BufferSize
  /\ cons.op = "PopBatch" /\ cons.pc = "idle" /\ cons.read = BufferSize
  /\ cons.buf[BufferSize] = Len(pushed)
  /\ head = tail /\ head < BufferSize /\ Len(pushed) = BufferSize

\* C12: called with no consumer operation in flight on a buffer that holds
\* Size elements, PushBatch(src, n) returns k = min(n, BufferSize - Size);
\* afterwards the buffer holds the elements it held followed by src[0..k), in
\* order, and it is full if n was at least the free space.
C12_PushBatchFillsFreeSpace ==
  [][PushBatchReturns =>
       LET k == prod'.written
           size0 == Unread' - k
       IN  /\ k = Min(prod'.count, BufferSize - size0)
           /\ Content' = UnreadSeq'
           /\ prod'.count >= BufferSize - size0 => IsFull']_vars

\* C13: called with no producer operation in flight on a buffer that holds
\* Size elements, PopBatch(dst, n) returns k = min(n, Size); dst[0..k) holds
\* the k oldest elements in order, dst[k..n) is as the caller left it, and
\* the buffer holds k elements fewer (tail has advanced by k).
C13_PopBatchTakesOldest ==
  [][ConsumerReturns("PopBatch") =>
       LET k == cons'.read
           size0 == Unread' + k
       IN  /\ k = Min(cons'.count, size0)
           /\ SubSeq(cons'.buf, 1, k) =
                 SubSeq(pushed', Len(consumed') - k + 1, Len(consumed'))
           /\ \A i \in k + 1 .. cons'.count : cons'.buf[i] = OutInit
           /\ Size' = size0 - k]_vars

\* C14: a chunk of w elements that starts at slot offset o with o + w >
\* BufferSize is copied by PushBatch, and by PopBatch, as slots [o, BufferSize)
\* and then slots [0, w - (BufferSize - o)); no copy addresses a slot index
\* >= BufferSize; after the copies the slots hold the chunk in order, and the
\* consumer's array holds the pushed values in order.
C14_SplitAtArrayEnd ==
  /\ ProducerWrites \subseteq 0 .. BufferSize - 1
  /\ ConsumerReads \subseteq 0 .. BufferSize - 1
  /\ (prod.pc = "pb_copy_first" /\ PbHeadOffset + PbToWrite > BufferSize) =>
        ProducerWrites = PbHeadOffset .. BufferSize - 1
  /\ prod.pc = "pb_copy_second" =>
        /\ PbHeadOffset + PbToWrite > BufferSize
        /\ ProducerWrites = 0 .. PbToWrite - (BufferSize - PbHeadOffset) - 1
  /\ prod.pc = "pb_store" =>
        \A i \in 0 .. PbToWrite - 1 :
          data_buff[Mask(PbHeadOffset + i)] = NextValue(i)
  /\ (cons.pc = "qb_copy_first" /\ QbTailOffset + QbToRead > BufferSize) =>
        ConsumerReads = QbTailOffset .. BufferSize - 1
  /\ cons.pc = "qb_copy_second" =>
        /\ QbTailOffset + QbToRead > BufferSize
        /\ ConsumerReads = 0 .. QbToRead - (BufferSize - QbTailOffset) - 1
  /\ cons.pc = "qb_store" =>
        \A i \in 1 .. QbToRead :
          cons.buf[cons.read + i] = pushed[Len(consumed) + i]

\* C14 witness: PopBatch has copied out, in two parts, a chunk of at least
\* three elements that PushBatch had written across the end of the array.
C14_Witness ==
  /\ cons.op = "PopBatch" /\ cons.pc = "qb_store"
  /\ QbTailOffset + QbToRead > BufferSize
  /\ QbToRead >= BufferSize - 1
  /\ QbToRead - QbFirstPart >= 1
  /\ \A i \in 1 .. QbToRead : cons.buf[i] = pushed[Len(consumed) + i]

\* A PushBatch call that has written nothing yet, and a PopBatch call that
\* has read nothing yet: from the load of the own counter up to the return.
PushBatchNoneWritten ==
  prod.op = "PushBatch" /\ prod.pc = "pb_load_tail" /\ prod.written = 0

PopBatchNoneRead ==
  cons.op = "PopBatch" /\ cons.pc = "qb_load_head" /\ cons.read = 0

\* The two results of C15 that do not depend on the requested count: the
\* count returned is in [0, n]; and a buffer that has room at some state of a
\* PushBatch call that has written nothing has room at the next state (the
\* dual for PopBatch), so a call that ends on a full (empty) buffer has seen
\* it full (empty) in each of its states.
BatchResultInRange ==
  /\ PushBatchReturns => prod'.written \in 0 .. prod'.count
  /\ ConsumerReturns("PopBatch") => cons'.read \in 0 .. cons'.count
  /\ (PushBatchNoneWritten /\ Unread < BufferSize) => Unread' < BufferSize
  /\ (PopBatchNoneRead /\ Unread > 0) => Unread' > 0

\* C15 as stated, for every requested count n >= 0: PushBatch and PopBatch
\* return a count in [0, n]; PushBatch returns 0 only when the buffer was
\* full in every state of the call, PopBatch returns 0 only when it was empty
\* in every state of the call.
C15_ZeroMeansFullOrEmpty ==
  [][/\ BatchResultInRange
     /\ (PushBatchReturns /\ prod'.written = 0) =>
          (Unread >= BufferSize /\ Unread' >= BufferSize)
     /\ (ConsumerReturns("PopBatch") /\ cons'.read = 0) =>
          (Unread = 0 /\ Unread' = 0)]_vars

\* C15 amended, for every requested count n >= 1: as above; a call with
\* n = 0 returns 0 whatever the buffer holds.
C15_ZeroMeansFullOrEmptyForPositiveCount ==
  [][/\ BatchResultInRange
     /\ (PushBatchReturns /\ prod'.count >= 1 /\ prod'.written = 0) =>
          (Unread >= BufferSize /\ Unread' >= BufferSize)
     /\ (ConsumerReturns("PopBatch") /\ cons'.count >= 1 /\ cons'.read = 0) =>
          (Unread = 0 /\ Unread' = 0)
     /\ (PushBatchReturns /\ prod'.count = 0) => prod'.written = 0
     /\ (ConsumerReturns("PopBatch") /\ cons'.count = 0) => cons'.read = 0]_vars

\* C15 witness: a PushBatch of at least one element has returned 0 on a
\* buffer filled across the 8-bit wrap, after a PopBatch of at least one
\* element had returned 0 on the empty buffer.
C15_Witness ==
  /\ prod.op = "PushBatch" /\ prod.pc = "idle"
  /\ prod.count >= 1 /\ prod.written = 0
  /\ Unread = BufferSize /\ head < tail
  /\ cons.op = "PopBatch" /\ cons.pc = "idle"
  /\ cons.count >= 1 /\ cons.read = 0 /\ consumed = <<>>

\* C16: in every state, Size() is in [0, Capacity()] and Size() + Available()
\* = Capacity(), both queries evaluated in that state.
C16_SizePlusAvailableIsCapacity ==
  /\ Size \in 0 .. Capacity
  /\ Size + Available = Capacity

\* C17: the constructed buffer is empty, not full, of size 0 with BufferSize
\* slots available; whenever BufferSize accepted elements are unread the
\* buffer is full, not empty, of size BufferSize with no slot available; and
\* in no state is the buffer both empty and full.
C17_NoSlotWasted ==
  /\ (pushed = <<>> /\ consumed = <<>>) =>
        (IsEmpty /\ ~IsFull /\ Size = 0 /\ Available = BufferSize)
  /\ Unread = BufferSize =>
        (IsFull /\ ~IsEmpty /\ Size = BufferSize /\ Available = 0)
  /\ ~(IsEmpty /\ IsFull)

\* C17 witness: BufferSize pushes into the empty buffer have all succeeded,
\* the last of them a Push, with head wrapped past 255 and tail not.
C17_Witness ==
  /\ Len(pushed) = BufferSize /\ consumed = <<>>
  /\ prod.op = "Push" /\ prod.pc = "idle" /\ prod.ret
  /\ head < tail
  /\ IsFull

\* C18: Peek() on a non-empty buffer returns a pointer to the oldest unread
\* element, which is the slot the next Pop reads, and on an empty buffer it
\* returns null; no step of Peek changes head, tail or a slot, so Size() is
\* the same before and after.
C18_PeekReturnsOldest ==
  [][/\ ConsumerReturns("Peek") =>
          IF IsEmpty'
            THEN ~cons'.ret
            ELSE /\ cons'.ret
                 /\ cons'.slot = Mask(tail')
                 /\ cons'.data = pushed'[Len(consumed') + 1]
     /\ (cons.op = "Peek" \/ cons'.op = "Peek") =>
          (cons' # cons => UNCHANGED <<head, tail, data_buff>>)]_vars

\* C19: At(i) returns a pointer to the (i+1)-th oldest unread element when
\* i < head - tail (the number of unread elements) and null otherwise, and
\* changes neither counter; for i < Size(), operator[](i) is that same
\* element.
C19_AtReturnsIndexedElement ==
  [][/\ ConsumerReturns("At") =>
          IF cons'.index < Size'
            THEN /\ cons'.ret
                 /\ cons'.slot = Mask(tail' + cons'.index)
                 /\ cons'.data = pushed'[Len(consumed') + cons'.index + 1]
            ELSE ~cons'.ret
     /\ (ConsumerReturns("operator[]") /\ cons'.index < Size') =>
          /\ cons'.slot = Mask(tail' + cons'.index)
          /\ cons'.data = pushed'[Len(consumed') + cons'.index + 1]
     /\ (cons' # cons /\ cons'.op \in {"At", "operator[]"}) =>
          UNCHANGED <<head, tail, data_buff>>]_vars

\* C20: Discard(k) returns d = min(k, head - tail) and advances tail by
\* exactly d, leaving head and the slots unchanged (on an empty buffer d = 0
\* and nothing changes); the Pop that follows a Discard returns the oldest
\* element that was not discarded.
C20_DiscardAdvancesTail ==
  [][/\ ConsumerReturns("Discard") =>
          LET d == cons'.to_discard
          IN  /\ d = Min(cons'.count, Unread' + d)
              /\ tail' = ToIndexT(cons.current_tail + d)
              /\ Size' = Size - d
              /\ UNCHANGED <<head, data_buff>>
              /\ IsEmpty => (d = 0 /\ tail' = tail)
     /\ (/\ ConsumerReturns("Pop") /\ cons'.ret
         /\ Len(consumed) >= 1 /\ consumed[Len(consumed)] = Discarded) =>
          cons'.data = pushed'[Len(consumed')]]_vars

\* A step of the producer that returns from the operation op.
ProducerReturns(op) == prod' # prod /\ prod'.op = op /\ prod'.pc = "idle"

\* Ghost: some element was dropped unread (in a run whose only dropping
\* operations are the clears: a clear of a non-empty buffer has happened).
Dropped == \E i \in 1 .. Len(consumed) : consumed[i] = Discarded

\* C21: called with no operation of the opposite role in flight,
\* ProducerClear stores the value of tail into head and ConsumerClear the
\* value of head into tail; on return IsEmpty() holds, Size() = 0 and
\* Available() = BufferSize, and no accepted element is left unread; a Pop
\* that finds nothing pushed since the clear fails; and after a clear every
\* successful Pop returns the oldest value pushed and not yet popped.
C21_ClearEmptiesBuffer ==
  [][/\ ProducerReturns("ProducerClear") =>
          (head' = tail /\ tail' = tail)
     /\ ConsumerReturns("ConsumerClear") =>
          (tail' = head /\ head' = head)
     /\ (ProducerReturns("ProducerClear") \/ ConsumerReturns("ConsumerClear")) =>
          /\ IsEmpty' /\ Size' = 0 /\ Available' = BufferSize
          /\ Unread' = 0
     /\ (ConsumerReturns("Pop") /\ Dropped /\ Unread = 0) => ~cons'.ret
     /\ (ConsumerReturns("Pop") /\ Dropped /\ Unread > 0) =>
          (cons'.ret /\ cons'.data = pushed'[Len(consumed')])]_vars

\* Ghost: the values pushed after the clear that were handed to the consumer,
\* in the order they were handed over.
PushedAfterClear(v) == v > ClearAt

DeliveredAfterClear == SelectSeq(consumed, PushedAfterClear)

\* C22: whatever step of a consumer operation ProducerClear is interleaved
\* with, the values pushed after the clear are handed to the consumer once
\* each and in push order, no value pushed before the clear is handed over
\* after one pushed after it, and a Pop does not fail while a value pushed
\* after the clear is waiting.
C22_ClearInterleavedWithConsumer ==
  [][/\ DeliveredAfterClear' =
          [i \in 1 .. Len(DeliveredAfterClear') |-> ClearAt + i]
     /\ \A i, j \in 1 .. Len(consumed') :
          (i < j /\ consumed'[i] > ClearAt) => consumed'[j] \notin 1 .. ClearAt
     /\ (/\ ConsumerReturns("Pop")
         /\ Len(pushed) > ClearAt + Len(DeliveredAfterClear)) =>
          cons'.ret]_vars

ProducerOps == {"Push", "PushFromCallback", "PushBatch", "ProducerClear"}

ConsumerOps == {"Pop", "PopBatch", "Discard", "ConsumerClear"}

ReadOnlyOps ==
  {"Peek", "At", "operator[]", "Size", "Available", "IsEmpty", "IsFull"}

\* C23: no step of Push, PushFromCallback, PushBatch or ProducerClear changes
\* tail; no step of Pop, PopBatch, Discard or ConsumerClear changes head or a
\* slot; no step of Peek, At, operator[], Size, Available, IsEmpty or IsFull
\* changes head, tail or a slot.
C23_OperationsKeepTheirFrame ==
  [][/\ (prod' # prod /\ prod'.op \in ProducerOps) => tail' = tail
     /\ (cons' # cons /\ cons'.op \in ConsumerOps) =>
          (head' = head /\ data_buff' = data_buff)
     /\ (prod' # prod /\ prod'.op \in ReadOnlyOps) =>
          UNCHANGED <<head, tail, data_buff>>
     /\ (cons' # cons /\ cons'.op \in ReadOnlyOps) =>
          UNCHANGED <<head, tail, data_buff>>]_vars

\* C23 witness: ProducerClear has moved head while a PopBatch that has copied
\* a chunk is about to store tail.
C23_Witness ==
  /\ prod.op = "ProducerClear" /\ prod.pc = "idle" /\ prod.touched
  /\ cons.op = "PopBatch" /\ cons.pc = "qb_store" /\ QbToRead >= 1

ProducerStep ==
  \/ PushLoadTail
  \/ PushWrite
  \/ PushStoreHead
  \/ PushFromCallbackLoadTail
  \/ PushFromCallbackWrite
  \/ PushFromCallbackStoreHead
  \/ PushBatchLoadTail
  \/ PushBatchCopyFirst
  \/ PushBatchCopySecond
  \/ PushBatchStoreHead
  \/ PushBatchCallback
  \/ ProducerClearStoreHead

ConsumerStep ==
  \/ PopLoadHead
  \/ PopRead
  \/ PopStoreTail
  \/ PopBatchLoadHead
  \/ PopBatchCopyFirst
  \/ PopBatchCopySecond
  \/ PopBatchStoreTail
  \/ PopBatchCallback
  \/ DiscardLoadHead
  \/ DiscardStoreTail
  \/ PeekLoadHead
  \/ AtLoadHead
  \/ ConsumerClearStoreTail

\* Largest number of steps of one iteration of a batch loop: the load, two
\* copies, the store, the callback.
IterSteps == 5

\* An upper bound on the number of steps a call in flight has left, from the
\* thread's own position and locals.
StepsLeft(p) ==
  CASE p.pc = "idle" -> 0
    [] p.pc \in {"push_load_tail", "pop_load_head"} -> 3
    [] p.pc \in {"push_write", "pop_read", "discard_load_head"} -> 2
    [] p.pc \in {"push_store", "pop_store", "discard_store", "pclear_store",
                 "cclear_store", "peek_load_head", "at_load_head"} -> 1
    [] p.pc = "pb_load_tail" -> IterSteps * (p.count - p.written)
    [] p.pc = "pb_copy_first" -> IterSteps * (p.count - p.written) - 1
    [] p.pc = "pb_copy_second" -> IterSteps * (p.count - p.written) - 2
    [] p.pc = "pb_store" -> IterSteps * (p.count - p.written) - 3
    [] p.pc = "pb_callback" -> IterSteps * (p.count - p.written) + 1
    [] p.pc = "qb_load_head" -> IterSteps * (p.count - p.read)
    [] p.pc = "qb_copy_first" -> IterSteps * (p.count - p.read) - 1
    [] p.pc = "qb_copy_second" -> IterSteps * (p.count - p.read) - 2
    [] p.pc = "qb_store" -> IterSteps * (p.count - p.read) - 3
    [] p.pc = "qb_callback" -> IterSteps * (p.count - p.read) + 1

\* C25: a call in flight always has a step it can take, whatever the other
\* thread has done or not done; each step of a call lowers a bound on the
\* steps the call has left, which starts at 3 or less for the single-element
\* operations and at IterSteps * n for PushBatch and PopBatch with count n; a
\* batch call begins at most n iterations of its loop, and each iteration it
\* completes has transferred at least one element.
C25_CallsEndInBoundedSteps ==
  /\ [](/\ prod.pc # "idle" => ENABLED ProducerStep
        /\ cons.pc # "idle" => ENABLED ConsumerStep
        /\ StepsLeft(prod) >= 0 /\ StepsLeft(cons) >= 0
        /\ prod.op = "PushBatch" =>
              (prod.iter <= prod.count /\ prod.iter <= prod.written + 1)
        /\ cons.op = "PopBatch" =>
              (cons.iter <= cons.count /\ cons.iter <= cons.read + 1))
  /\ [][/\ prod' # prod =>
            IF prod.pc = "idle"
              THEN StepsLeft(prod') <=
                     IF prod'.op = "PushBatch" THEN IterSteps * prod'.count
                                               ELSE 3
              ELSE StepsLeft(prod') < StepsLeft(prod)
        /\ cons' # cons =>
            IF cons.pc = "idle"
              THEN StepsLeft(cons') <=
                     IF cons'.op = "PopBatch" THEN IterSteps * cons'.count
                                              ELSE 3
              ELSE StepsLeft(cons') < StepsLeft(cons)
        /\ (prod.pc = "pb_store" /\ prod' # prod) =>
            prod'.written > prod.written
        /\ (cons.pc = "qb_store" /\ cons' # cons) =>
            cons'.read > cons.read]_vars

\* C25 witness: a PushBatch of two elements has returned after two
\* iterations of its loop, the consumer having made room between them, while
\* a Pop is in flight.
C25_Witness ==
  /\ prod.op = "PushBatch" /\ prod.pc = "idle"
  /\ prod.count = 2 /\ prod.iter = 2 /\ prod.written = 2
  /\ cons.op = "Pop" /\ cons.pc = "pop_read"

\* C26: the retrying producer and the retrying consumer, scheduled fairly,
\* both finish: eventually MaxPush values have been pushed and MaxPush values
\* popped, no call is in flight, the popped values are the pushed values in
\* order and IsEmpty() holds, and it stays so.
C26_RetryingThreadsFinish ==
  <>[](/\ prod.pc = "idle" /\ cons.pc = "idle"
       /\ Len(pushed) = MaxPush
       /\ consumed = pushed
       /\ IsEmpty)

\* The value of the last Available() of the producer, and of the last Size()
\* of the consumer, while the thread has called nothing since.
AvailableSeen == prod.op = "Available" /\ prod.pc = "idle"

SizeSeen == cons.op = "Size" /\ cons.pc = "idle"

PointerHeld == cons.op \in {"Peek", "At"} /\ cons.pc = "idle" /\ cons.ret

\* C28: while the consumer holds a non-null pointer returned by Peek() or
\* At(i) and has called nothing since, no step of the producer writes the
\* slot it points to, whatever operations the producer runs.
C28_PeekedSlotNotWritten == PointerHeld => cons.slot \notin ProducerWrites

\* The number of callback invocations a batch call in flight must have made:
\* one for each iteration that has stored the counter, the one whose callback
\* is about to run excepted.  p is the thread's record, done the number of
\* elements transferred, loop_pc the position of the loop's first load.
CallsDue(p, done, loop_pc) ==
  IF ~p.callback THEN 0
  ELSE IF p.pc = loop_pc THEN p.iter
  ELSE IF p.pc = "idle" THEN (IF done < p.count THEN p.iter - 1 ELSE p.iter)
  ELSE p.iter - 1

\* C29: a batch call with a callback has invoked it once for each iteration
\* of its loop that stored the counter, and not at all if no iteration did;
\* the callback runs in the step after the store of head (of tail), with the
\* counter holding the chunk and no shared variable changed by the callback;
\* after the callback the loop goes on if fewer than n elements are
\* transferred and returns otherwise; and a call returns fewer than n
\* elements only from the test for a full (an empty) buffer.
C29_CallbackAfterEachChunk ==
  /\ [](/\ prod.op = "PushBatch" =>
              prod.calls = CallsDue(prod, prod.written, "pb_load_tail")
        /\ cons.op = "PopBatch" =>
              cons.calls = CallsDue(cons, cons.read, "qb_load_head")
        /\ (prod.op = "PushBatch" /\ prod.written = 0) => prod.calls = 0
        /\ (cons.op = "PopBatch" /\ cons.read = 0) => cons.calls = 0
        /\ prod.pc = "pb_callback" => head = prod.current_head
        /\ cons.pc = "qb_callback" => tail = cons.current_tail)
  /\ [][/\ prod'.pc = "pb_callback" /\ prod' # prod =>
            /\ prod.pc = "pb_store" /\ prod.callback
            /\ head' = ToIndexT(head + (prod'.written - prod.written))
            /\ prod'.written > prod.written
            /\ Len(pushed') = Len(pushed) + (prod'.written - prod.written)
        /\ cons'.pc = "qb_callback" /\ cons' # cons =>
            /\ cons.pc = "qb_store" /\ cons.callback
            /\ tail' = ToIndexT(tail + (cons'.read - cons.read))
            /\ cons'.read > cons.read
        /\ (prod.pc = "pb_store" /\ prod.callback /\ prod' # prod) =>
            prod'.pc = "pb_callback"
        /\ (cons.pc = "qb_store" /\ cons.callback /\ cons' # cons) =>
            cons'.pc = "qb_callback"
        /\ (prod.pc = "pb_callback" /\ prod' # prod) =>
            /\ prod'.calls = prod.calls + 1
            /\ UNCHANGED <<head, tail, data_buff>>
            /\ prod'.pc = IF prod.written < prod.count THEN "pb_load_tail"
                                                       ELSE "idle"
        /\ (cons.pc = "qb_callback" /\ cons' # cons) =>
            /\ cons'.calls = cons.calls + 1
            /\ UNCHANGED <<head, tail, data_buff>>
            /\ cons'.pc = IF cons.read < cons.count THEN "qb_load_head"
                                                    ELSE "idle"
        /\ (PushBatchReturns /\ prod'.written < prod'.count) =>
            (prod.pc = "pb_load_tail" /\ Space(prod.current_head, tail) = 0)
        /\ (ConsumerReturns("PopBatch") /\ cons'.read < cons'.count) =>
            (cons.pc = "qb_load_head" /\ Avail(head, cons.current_tail) = 0)
       ]_vars

\* C29 witness: a PushBatch with a callback has returned 2 after two chunks
\* and two callbacks, and a PopBatch with a callback is in its callback after
\* its first chunk with an element still to read.
C29_Witness ==
  /\ prod.op = "PushBatch" /\ prod.pc = "idle" /\ prod.callback
  /\ prod.written = 2 /\ prod.iter = 2 /\ prod.calls = 2
  /\ cons.op = "PopBatch" /\ cons.pc = "qb_callback" /\ cons.calls = 0
  /\ cons.read < cons.count

\* The number of elements a step of a batch call adds to the call's result:
\* p is the thread's record before the step, done and done2 the result
\* before and after it (a call's first step starts from the result 0).
Transferred(p, done, done2) == done2 - (IF p.pc = "idle" THEN 0 ELSE done)

\* C30: every step of PushBatch advances head by the number of elements it
\* adds to the call's result, and these elements, the next of the source
\* array, are then in the slots below head; every step of PopBatch advances
\* tail by the number of elements it adds to the call's result; so a call
\* that returns k has advanced its counter by exactly k.  A Push or
\* PushFromCallback that returns false has changed neither head nor a slot,
\* a Pop that returns false has not changed tail, and no step of them
\* changes the other counter.
C30_PublishesWhatItReports ==
  [][/\ (prod' # prod /\ prod'.op = "PushBatch") =>
          LET d == Transferred(prod, prod.written, prod'.written)
          IN  /\ d >= 0
              /\ prod'.written <= prod'.count
              /\ head' = ToIndexT(head + d)
              /\ Len(pushed') = Len(pushed) + d
              /\ \A i \in 1 .. d :
                   /\ pushed'[Len(pushed) + i] = NextValue(i - 1)
                   /\ data_buff'[Mask(head + i - 1)] = NextValue(i - 1)
     /\ (cons' # cons /\ cons'.op = "PopBatch") =>
          LET d == Transferred(cons, cons.read, cons'.read)
          IN  /\ d >= 0
              /\ cons'.read <= cons'.count
              /\ tail' = ToIndexT(tail + d)
     /\ (/\ ProducerReturns("Push") \/ ProducerReturns("PushFromCallback")
         /\ ~prod'.ret) =>
          (~prod'.touched /\ UNCHANGED <<head, tail, data_buff>>)
     /\ (ConsumerReturns("Pop") /\ ~cons'.ret) =>
          (~cons'.touched /\ UNCHANGED <<head, tail, data_buff>>)
     /\ (prod' # prod /\ prod'.op \in {"Push", "PushFromCallback"}) =>
          tail' = tail
     /\ (cons' # cons /\ cons'.op = "Pop") => head' = head]_vars

\* C30 witness: on a buffer whose head has wrapped, a PushBatch of two
\* elements has returned 1 after a Pop had returned false.
C30_Witness ==
  /\ prod.op = "PushBatch" /\ prod.pc = "idle"
  /\ prod.count = 2 /\ prod.written = 1
  /\ head < tail
  /\ cons.op = "Pop" /\ cons.pc = "idle" /\ ~cons.ret

\* Ghost: the accepted value the consumer's call in flight reads i-th, counted
\* from 1, or Discarded - 1 (a value held nowhere) if no such value was
\* accepted yet.
NextUnread(i) ==
  IF Len(consumed) + i <= Len(pushed) THEN pushed[Len(consumed) + i]
                                      ELSE Discarded - 1

\* C31: in Push, PushFromCallback and PushBatch the slot writes come before
\* the store of head, so at that store the slots hold the values it
\* publishes; in Pop and PopBatch the load of head comes before the slot
\* reads; and every slot the consumer is about to read, or has read, inside
\* Pop or PopBatch holds (held) an element whose store of head has taken
\* place: the accepted values, in order, and nothing the producer is still
\* writing.
C31_ReadsOnlyPublished ==
  /\ prod.pc = "push_store" =>
        data_buff[Mask(prod.current_head)] = NextValue(0)
  /\ prod.pc = "pb_store" =>
        \A i \in 0 .. PbToWrite - 1 :
          data_buff[Mask(PbHeadOffset + i)] = NextValue(i)
  /\ cons.pc = "pop_read" =>
        /\ cons.current_head # cons.current_tail
        /\ data_buff[Mask(cons.current_tail)] = NextUnread(1)
        /\ Mask(cons.current_tail) \notin ProducerWrites
  /\ cons.pc = "pop_store" => cons.data = NextUnread(1)
  /\ cons.pc = "qb_copy_first" =>
        /\ \A i \in 1 .. QbToRead :
             data_buff[Mask(QbTailOffset + i - 1)] = NextUnread(i)
        /\ ConsumerReads \cap ProducerWrites = {}
  /\ cons.pc = "qb_copy_second" => ConsumerReads \cap ProducerWrites = {}
  /\ cons.pc = "qb_store" =>
        \A i \in 1 .. QbToRead : cons.buf[cons.read + i] = NextUnread(i)

\* C32: with the 8-bit index type, for every index argument i, At(i) returns
\* null exactly when i is at least the number of unread elements: null for
\* every i >= 2^8, and the (i+1)-th oldest element for every i below the
\* count, also when head has wrapped past 255 and tail has not.
C32_AtNullExactlyWhenOutOfRange ==
  [][ConsumerReturns("At") =>
       /\ cons'.ret <=> cons'.index < Size'
       /\ cons'.index >= IndexMod => ~cons'.ret
       /\ (cons'.index < Size' /\ head' < tail') =>
            /\ cons'.ret
            /\ cons'.data = data_buff'[Mask(tail' + cons'.index)]]_vars

C34_RangeWithoutProducerClear ==
  /\ 0 <= Size /\ Size <= BufferSize
  /\ 0 <= Available /\ Available <= BufferSize

\* C35: in every interleaving with the other thread's Push, PushFromCallback,
\* PushBatch, Pop, PopBatch or Discard, a Push returns false only from its
\* load of tail, taken in a state in which exactly BufferSize accepted
\* elements were unread (head - tail = BufferSize), and a Pop returns false
\* only from its load of head, taken in a state in which no accepted element
\* was unread (head = tail).
C35_NoSpuriousFailure ==
  [][/\ (ProducerReturns("Push") /\ ~prod'.ret) =>
          /\ prod.pc = "push_load_tail"
          /\ head = prod.current_head
          /\ Unread = BufferSize
          /\ Size = BufferSize
     /\ (ConsumerReturns("Pop") /\ ~cons'.ret) =>
          /\ cons.pc = "pop_load_head"
          /\ tail = cons.current_tail
          /\ Unread = 0
          /\ head = tail]_vars

\* C35 witness: a Push has returned false on the full buffer while a Pop,
\* begun after an earlier Pop had returned elements, has loaded tail; and a
\* Pop had returned false before anything was pushed.
C35_Witness ==
  /\ prod.op = "Push" /\ prod.pc = "idle" /\ ~prod.ret
  /\ cons.op = "Pop" /\ cons.pc = "pop_load_head"
  /\ Unread = BufferSize
  /\ Len(consumed) >= 1

\* C35 witness, second case: a Pop has returned false on the drained buffer
\* while a Push is between its load of tail and its slot write.
C35_WitnessPop ==
  /\ cons.op = "Pop" /\ cons.pc = "idle" /\ ~cons.ret
  /\ prod.op = "Push" /\ prod.pc = "push_write"
  /\ Len(pushed) >= 1 /\ Unread = 0

\* A step in which a Push returns false, and one in which a Pop returns
\* false.
PushFails == ProducerReturns("Push") /\ ~prod'.ret

PopFails == ConsumerReturns("Pop") /\ ~cons'.ret

\* A Pop that has loaded tail and not yet head, and a Push that has loaded
\* head and not yet tail.
PopInFlight == cons.op = "Pop" /\ cons.pc = "pop_load_head"

PushInFlight == prod.op = "Push" /\ prod.pc = "push_load_tail"

\* A thread that is in no call or in a call that has not yet gone past its
\* test for a full (an empty) buffer.
ProducerBeforeTest == prod.pc \in {"idle", "push_load_tail", "pb_load_tail"}

ConsumerBeforeTest ==
  cons.pc \in {"idle", "pop_load_head", "qb_load_head", "discard_load_head",
               "peek_load_head", "at_load_head", "cclear_store"}

\* C36: a Push and a Pop that overlap do not both fail.  When a Push finds
\* the buffer full while a Pop is in flight, the buffer stays full, no step
\* of the producer changing head, until that Pop takes its next step, and
\* that step goes past the test for emptiness; when a Pop finds the buffer
\* empty while a Push is in flight, the buffer stays empty, no step of the
\* consumer changing tail, until that Push takes its next step, and that
\* step goes past the test for fullness; and two calls that are both before
\* their last load are never both about to fail.
C36_NotBothFail ==
  /\ [](/\ ~(/\ PushInFlight /\ PushIsFull(prod.current_head, tail)
             /\ PopInFlight /\ PopIsEmpty(cons.current_tail, head))
        /\ PushInFlight => prod.current_head = head
        /\ PopInFlight => cons.current_tail = tail)
  /\ [][/\ (PushFails /\ PopInFlight) =>
            (PushIsFull(head', tail') /\ ProducerBeforeTest')
        /\ (PopInFlight /\ PushIsFull(head, tail) /\ ProducerBeforeTest) =>
            IF cons' = cons
              THEN UNCHANGED <<head, tail>> /\ ProducerBeforeTest'
              ELSE cons'.pc = "pop_read"
        /\ (PopFails /\ PushInFlight) =>
            (PopIsEmpty(tail', head') /\ ConsumerBeforeTest')
        /\ (PushInFlight /\ PopIsEmpty(tail, head) /\ ConsumerBeforeTest) =>
            IF prod' = prod
              THEN UNCHANGED <<head, tail>> /\ ConsumerBeforeTest'
              ELSE prod'.pc = "push_write"]_vars

\* C36 witness: a Pop has returned false on the drained buffer while a Push,
\* called after an earlier Push had returned false on the full buffer, has
\* loaded head and not yet tail.
C36_Witness ==
  /\ cons.op = "Pop" /\ cons.pc = "idle" /\ ~cons.ret
  /\ PushInFlight
  /\ head = tail
  /\ Len(pushed) >= BufferSize /\ Len(consumed) = Len(pushed)
  /\ head = prod.current_head

\* C37: at whatever step of a Push, PushFromCallback or PushBatch in flight
\* ConsumerClear loads head and stores tail, the store sets tail to the head
\* it loaded, which is not beyond head (0 <= head - tail <= BufferSize
\* after it); the elements it drops are those published before its load, so
\* the buffer then holds exactly the elements published since, in order; and
\* every later Pop that succeeds returns the oldest of the accepted elements
\* that was neither popped nor dropped.
C37_ConsumerClearKeepsLaterElements ==
  /\ [](/\ Len(consumed) <= Len(pushed)
        /\ \A i \in 1 .. Min(Len(consumed), Len(pushed)) :
             consumed[i] \in {pushed[i], Discarded})
  /\ [][/\ ConsumerReturns("ConsumerClear") =>
            /\ tail' = cons.current_head
            /\ ToIndexT(head' - tail') \in 0 .. BufferSize
            /\ Size' = Unread'
            /\ Content' = UnreadSeq'
        /\ (ConsumerReturns("Pop") /\ Dropped) =>
            IF Unread > 0
              THEN cons'.ret /\ cons'.data = pushed[Len(consumed) + 1]
              ELSE ~cons'.ret]_vars

\* C38: Size() and Available(), each two loads in either order, return a
\* value in [0, BufferSize] when the producer thread or the consumer thread
\* calls them while the other thread runs Push, PushBatch, Pop, PopBatch or
\* Discard.
C38_QueriesWithinCapacity ==
  /\ (prod.op \in QueryOps /\ prod.pc = "idle") =>
        prod.result \in 0 .. BufferSize
  /\ (cons.op \in QueryOps /\ cons.pc = "idle") =>
        cons.result \in 0 .. BufferSize

====
